---- MODULE Spec2Model ----
(***************************************************************************)
(* The document editing engine of berry: Row (a line of text), EditDiff    *)
(* (the reversible edit operations), History (the transaction log with     *)
(* its undo/redo pointer) and TextBuffer (the document: lines, cursor,     *)
(* file binding, bookkeeping), driven by the editor's key loop, which      *)
(* calls one TextBuffer method per key and finish_edit() after it.         *)
(*                                                                         *)
(* Line and column indices are 0-based as in the source; a line is the     *)
(* sequence of its characters.  history.rs is not among the sources: the   *)
(* History operators follow the description of History in spec.md.         *)
(***************************************************************************)
EXTENDS Integers, Sequences, FiniteSets, TLC

\* Bounds of the model.
MaxLines == 2
MaxLineLen == 2
MaxDiffs == 3

\* The characters a key can insert.
Chars == {"a", "b"}

\* A character with no display width that is no tab (U+0085, which the input layer
\* delivers as Utf8Key): update_render refuses a line that holds one.
ControlChars == {"U+0085"}

\* Option<T>: None, Some(v).
None == <<>>
Some(v) == <<v>>

Min(a, b) == IF a <= b THEN a ELSE b

(***************************************************************************)
(* Row (row.rs)                                                            *)
(***************************************************************************)
Row_empty == <<>>

\* update_render(): Ok(()) unless the line holds a control character.
Row_update_render_ok(r) == \A i \in 1..Len(r) : r[i] \notin ControlChars

Row_len(r) == Len(r)

\* char_at(at): the character at 0-based index at.
Row_char_at(r, at) == r[at + 1]

\* insert_char that takes every index for the end of the line.
Row_insert_char_at_end(r, at, c) == Append(r, c)

Row_insert_char(r, at, c) ==
  IF Row_len(r) <= at
    THEN Append(r, c)
    ELSE SubSeq(r, 1, at) \o <<c>> \o SubSeq(r, at + 1, Len(r))

Row_append(r, s) == IF s = <<>> THEN r ELSE r \o s

Row_truncate(r, at) == IF at < Row_len(r) THEN SubSeq(r, 1, at) ELSE r

\* remove_char that removes nothing.
Row_remove_char_keeping(r, at) == r

Row_remove_char(r, at) == SubSeq(r, 1, at) \o SubSeq(r, at + 2, Len(r))

Row_remove(r, start, end) ==
  IF start < end
    THEN SubSeq(r, 1, start) \o SubSeq(r, end + 1, Len(r))
    ELSE r

\* The suffix self[cx..] of a row.
Row_from(r, cx) == SubSeq(r, cx + 1, Len(r))

(***************************************************************************)
(* Row at the level of bytes (row.rs): buf is the UTF-8 text, a sequence   *)
(* of bytes, indices the cache of the byte offset of each character, ok    *)
(* false once a call has panicked.  A character is the sequence of the     *)
(* bytes that encode it.                                                   *)
(***************************************************************************)
\* 'a', U+00E9, U+3042 and U+1F600: 1, 2, 3 and 4 bytes.
RowChars == { <<97>>, <<195, 169>>, <<227, 129, 130>>, <<240, 159, 152, 128>> }

ContinuationBytes == 128..191

\* The bytes of the character that begins with byte lead.
Utf8Width(lead) ==
  IF lead < 128 THEN 1 ELSE IF lead < 224 THEN 2 ELSE IF lead < 240 THEN 3 ELSE 4

\* str::chars(): the characters of a text.
RECURSIVE Str_chars(_)
Str_chars(buf) ==
  IF buf = <<>> THEN <<>>
  ELSE <<SubSeq(buf, 1, Utf8Width(buf[1]))>>
         \o Str_chars(SubSeq(buf, Utf8Width(buf[1]) + 1, Len(buf)))

\* The text of a sequence of characters.
RECURSIVE Str_of(_)
Str_of(cs) == IF cs = <<>> THEN <<>> ELSE Head(cs) \o Str_of(Tail(cs))

Str_is_char_boundary(buf, idx) ==
  \/ idx = 0
  \/ idx = Len(buf)
  \/ idx < Len(buf) /\ buf[idx + 1] \notin ContinuationBytes

\* str::char_indices(): the byte offset of each character.
Str_char_indices(buf) ==
  SelectSeq([i \in 1..Len(buf) |-> i - 1], LAMBDA i : buf[i + 1] \notin ContinuationBytes)

RowBuf_empty == [buf |-> <<>>, indices |-> <<>>, ok |-> TRUE]

\* len() that counts the bytes.
RowBuf_len_bytes(r) == Len(r.buf)

RowBuf_len(r) == IF r.indices = <<>> THEN Len(r.buf) ELSE Len(r.indices)

\* byte_idx_of(char_idx); -1 stands for the panic of indices[char_idx] out of range.
RowBuf_byte_idx_of(r, char_idx) ==
  IF Len(r.indices) = 0 THEN char_idx
  ELSE IF Len(r.indices) = char_idx THEN Len(r.buf)
  ELSE IF char_idx < Len(r.indices) THEN r.indices[char_idx + 1]
  ELSE -1

\* update_render(): the cache is rebuilt from the text, empty when no character
\* takes more than a byte.
RowBuf_update_render(buf) ==
  [buf |-> buf,
   indices |-> IF Len(Str_char_indices(buf)) = Len(buf) THEN <<>> ELSE Str_char_indices(buf),
   ok |-> TRUE]

RowBuf_panic(r) == [r EXCEPT !.ok = FALSE]

\* String::insert(idx, c), String::truncate(idx), String::remove(idx) and
\* String::drain(start..end), which panic off a character boundary or out of range.
RowBuf_insert_at(r, idx, c) ==
  IF idx >= 0 /\ idx <= Len(r.buf) /\ Str_is_char_boundary(r.buf, idx)
    THEN RowBuf_update_render(SubSeq(r.buf, 1, idx) \o c \o SubSeq(r.buf, idx + 1, Len(r.buf)))
    ELSE RowBuf_panic(r)

RowBuf_truncate_at(r, idx) ==
  IF idx > Len(r.buf) THEN RowBuf_update_render(r.buf)
  ELSE IF idx >= 0 /\ Str_is_char_boundary(r.buf, idx)
    THEN RowBuf_update_render(SubSeq(r.buf, 1, idx))
    ELSE RowBuf_panic(r)

RowBuf_remove_at(r, idx) ==
  IF idx >= 0 /\ idx < Len(r.buf) /\ Str_is_char_boundary(r.buf, idx)
    THEN RowBuf_update_render(SubSeq(r.buf, 1, idx)
                                \o SubSeq(r.buf, idx + Utf8Width(r.buf[idx + 1]) + 1, Len(r.buf)))
    ELSE RowBuf_panic(r)

RowBuf_drain(r, start_idx, end_idx) ==
  IF /\ 0 <= start_idx
     /\ start_idx <= end_idx
     /\ end_idx <= Len(r.buf)
     /\ Str_is_char_boundary(r.buf, start_idx)
     /\ Str_is_char_boundary(r.buf, end_idx)
    THEN RowBuf_update_render(SubSeq(r.buf, 1, start_idx) \o SubSeq(r.buf, end_idx + 1, Len(r.buf)))
    ELSE RowBuf_panic(r)

RowBuf_insert_char(r, at, c) ==
  IF RowBuf_len(r) <= at
    THEN RowBuf_update_render(r.buf \o c)
    ELSE RowBuf_insert_at(r, RowBuf_byte_idx_of(r, at), c)

RowBuf_append(r, s) == IF s = <<>> THEN r ELSE RowBuf_update_render(r.buf \o s)

RowBuf_truncate(r, at) ==
  IF at < RowBuf_len(r) THEN RowBuf_truncate_at(r, RowBuf_byte_idx_of(r, at)) ELSE r

RowBuf_remove_char(r, at) == RowBuf_remove_at(r, RowBuf_byte_idx_of(r, at))

RowBuf_remove(r, start, end) ==
  IF start < end
    THEN RowBuf_drain(r, RowBuf_byte_idx_of(r, start), RowBuf_byte_idx_of(r, end))
    ELSE r

\* self[at..]: the text from character index at; <<-1>> stands for its panic.
RowBuf_from(r, at) ==
  IF /\ RowBuf_byte_idx_of(r, at) >= 0
     /\ RowBuf_byte_idx_of(r, at) <= Len(r.buf)
     /\ Str_is_char_boundary(r.buf, RowBuf_byte_idx_of(r, at))
    THEN SubSeq(r.buf, RowBuf_byte_idx_of(r, at) + 1, Len(r.buf))
    ELSE <<-1>>

\* char_at_checked(at): self[at..].chars().next().
RowBuf_char_at_checked(r, at) ==
  IF RowBuf_from(r, at) \in {<<>>, <<-1>>} THEN None ELSE Some(Head(Str_chars(RowBuf_from(r, at))))

(***************************************************************************)
(* Screen (screen.rs): the status message and the pending drawing of the   *)
(* message bar.  panicked is set when DrawMessage::fold reached one of its *)
(* unreachable!() arms.                                                    *)
(***************************************************************************)
DrawMessage == {"Open", "Close", "Update", "DoNothing"}

\* The arms of fold that are unreachable!().
DrawMessage_unreachable ==
  { <<"Open", "Open">>, <<"Close", "Close">>, <<"Close", "Update">>, <<"Update", "Open">> }

DrawMessage_fold(lhs, rhs) ==
  CASE lhs = "Open" /\ rhs = "Close" -> "DoNothing"
    [] lhs = "Open" /\ rhs = "Update" -> "Open"
    [] lhs = "Close" /\ rhs = "Open" -> "Update"
    [] lhs = "Update" /\ rhs = "Close" -> "Close"
    [] lhs = "Update" /\ rhs = "Update" -> "Update"
    [] rhs = "DoNothing" -> lhs
    [] lhs = "DoNothing" -> rhs
    [] OTHER -> "unreachable"

StatusMessage_new(text, kind) == [text |-> text, kind |-> kind]

\* Screen::new: the help message, to be opened.
Screen_new ==
  [message |-> Some(StatusMessage_new(0, "Info")), draw_message |-> "Open", panicked |-> FALSE]

\* The op set_message folds in: from the message held and the one set.
Screen_set_message_op(held, m) ==
  IF held # None /\ m # None
    THEN IF held[1].text = m[1].text THEN "DoNothing" ELSE "Update"
    ELSE IF held = None /\ m # None THEN "Open"
    ELSE IF held # None /\ m = None THEN "Close"
    ELSE "DoNothing"

\* set_message that folds the op in and keeps the message it held.
Screen_folded_forgetting(sc, m, op) ==
  IF <<sc.draw_message, op>> \in DrawMessage_unreachable
    THEN [sc EXCEPT !.panicked = TRUE]
    ELSE [sc EXCEPT !.draw_message = DrawMessage_fold(sc.draw_message, op)]

\* set_message once op is known: fold, then store the message.
Screen_folded(sc, m, op) ==
  IF <<sc.draw_message, op>> \in DrawMessage_unreachable
    THEN [sc EXCEPT !.panicked = TRUE]
    ELSE [message |-> m,
          draw_message |-> DrawMessage_fold(sc.draw_message, op),
          panicked |-> FALSE]

Screen_set_message(sc, m) == Screen_folded(sc, m, Screen_set_message_op(sc.message, m))

Screen_set_info_message(sc, text) == Screen_set_message(sc, Some(StatusMessage_new(text, "Info")))

Screen_set_error_message(sc, text) ==
  Screen_set_message(sc, Some(StatusMessage_new(text, "Error")))

Screen_unset_message(sc) == Screen_set_message(sc, None)

\* render() that returned Ok: after_render() clears the pending drawing.
Screen_after_render(sc) == [sc EXCEPT !.draw_message = "DoNothing"]

(***************************************************************************)
(* Vec<Row>: positional operations on the line collection (0-based).       *)
(***************************************************************************)
\* Vec::insert one line too far.
Vec_insert_after(rows, y, r) ==
  SubSeq(rows, 1, Min(y + 1, Len(rows))) \o <<r>> \o SubSeq(rows, y + 2, Len(rows))

Vec_insert(rows, y, r) == SubSeq(rows, 1, y) \o <<r>> \o SubSeq(rows, y + 1, Len(rows))

Vec_remove(rows, y) == SubSeq(rows, 1, y) \o SubSeq(rows, y + 2, Len(rows))

\* Vec::pop that leaves the last line in place.
Vec_pop_keeping(rows) == rows

Vec_pop(rows) == SubSeq(rows, 1, Len(rows) - 1)

Vec_set(rows, y, r) == [rows EXCEPT ![y + 1] = r]

(***************************************************************************)
(* EditDiff (edit_diff.rs)                                                 *)
(***************************************************************************)
EditDiff_InsertChar(x, y, c) == [t |-> "InsertChar", x |-> x, y |-> y, c |-> c, s |-> <<>>]
EditDiff_DeleteChar(x, y, c) == [t |-> "DeleteChar", x |-> x, y |-> y, c |-> c, s |-> <<>>]
EditDiff_Append(y, s) == [t |-> "Append", x |-> 0, y |-> y, c |-> "", s |-> s]
EditDiff_Truncate(y, s) == [t |-> "Truncate", x |-> 0, y |-> y, c |-> "", s |-> s]
EditDiff_Newline == [t |-> "Newline", x |-> 0, y |-> 0, c |-> "", s |-> <<>>]
EditDiff_InsertLine(y, s) == [t |-> "InsertLine", x |-> 0, y |-> y, c |-> "", s |-> s]
EditDiff_DeleteLine(y, s) == [t |-> "DeleteLine", x |-> 0, y |-> y, c |-> "", s |-> s]

\* Whether apply() runs to its end: no index out of range, no usize underflow, the
\* debug_assert_eq of Newline holds, and update_render().unwrap() in Row::insert_char
\* finds no control character.
ApplyPre(d, rows, which) ==
  CASE d.t = "InsertChar" ->
         /\ d.y < Len(rows)
         /\ IF which = "Undo"
              THEN d.x < Row_len(rows[d.y + 1])
              ELSE Row_update_render_ok(Row_insert_char(rows[d.y + 1], d.x, d.c))
    [] d.t = "DeleteChar" ->
         /\ d.y < Len(rows)
         /\ d.x >= 1
         /\ which = "Redo" => d.x - 1 < Row_len(rows[d.y + 1])
    [] d.t = "Append" ->
         /\ d.y < Len(rows)
         /\ which = "Undo" => Len(d.s) <= Row_len(rows[d.y + 1])
    [] d.t = "Truncate" ->
         /\ d.y < Len(rows)
         /\ which = "Redo" => Len(d.s) <= Row_len(rows[d.y + 1])
    [] d.t = "Newline" ->
         which = "Undo" => (Len(rows) >= 1 /\ rows[Len(rows)] = Row_empty)
    [] d.t = "InsertLine" ->
         /\ d.y >= 1
         /\ IF which = "Redo" THEN d.y <= Len(rows) ELSE d.y < Len(rows)
    [] d.t = "DeleteLine" ->
         /\ d.y >= 1
         /\ IF which = "Redo" THEN d.y < Len(rows) ELSE d.y <= Len(rows)

\* apply(rows, which): the line collection after the diff and the cursor it returns.
Apply(d, rows, which) ==
  CASE d.t = "InsertChar" ->
         IF which = "Redo"
           THEN [rows |-> Vec_set(rows, d.y, Row_insert_char(rows[d.y + 1], d.x, d.c)),
                 x |-> d.x + 1, y |-> d.y]
           ELSE [rows |-> Vec_set(rows, d.y, Row_remove_char(rows[d.y + 1], d.x)),
                 x |-> d.x, y |-> d.y]
    [] d.t = "DeleteChar" ->
         IF which = "Redo"
           THEN [rows |-> Vec_set(rows, d.y, Row_remove_char(rows[d.y + 1], d.x - 1)),
                 x |-> d.x - 1, y |-> d.y]
           ELSE [rows |-> Vec_set(rows, d.y, Row_insert_char(rows[d.y + 1], d.x - 1, d.c)),
                 x |-> d.x, y |-> d.y]
    [] d.t = "Append" ->
         IF which = "Redo"
           THEN [rows |-> Vec_set(rows, d.y, Row_append(rows[d.y + 1], d.s)),
                 x |-> Row_len(rows[d.y + 1]), y |-> d.y]
           ELSE LET count == Len(d.s)
                    len == Row_len(rows[d.y + 1])
                    r == Row_remove(rows[d.y + 1], len - count, len)
                IN  [rows |-> Vec_set(rows, d.y, r), x |-> Row_len(r), y |-> d.y]
    [] d.t = "Truncate" ->
         IF which = "Redo"
           THEN LET count == Len(d.s)
                    len == Row_len(rows[d.y + 1])
                IN  [rows |-> Vec_set(rows, d.y, Row_truncate(rows[d.y + 1], len - count)),
                     x |-> len - count, y |-> d.y]
           ELSE LET r == Row_append(rows[d.y + 1], d.s)
                IN  [rows |-> Vec_set(rows, d.y, r), x |-> Row_len(r) - Len(d.s), y |-> d.y]
    [] d.t = "Newline" ->
         IF which = "Redo"
           THEN [rows |-> Append(rows, Row_empty), x |-> 0, y |-> Len(rows)]
           ELSE [rows |-> Vec_pop(rows), x |-> 0, y |-> Len(rows) - 1]
    [] d.t = "InsertLine" ->
         IF which = "Redo"
           THEN [rows |-> Vec_insert(rows, d.y, d.s), x |-> 0, y |-> d.y]
           ELSE [rows |-> Vec_remove(rows, d.y), x |-> Row_len(rows[d.y]), y |-> d.y - 1]
    [] d.t = "DeleteLine" ->
         IF which = "Redo"
           THEN [rows |-> IF d.y = Len(rows) - 1 THEN Vec_pop(rows) ELSE Vec_remove(rows, d.y),
                 x |-> Row_len(rows[d.y]), y |-> d.y - 1]
           ELSE [rows |-> IF d.y = Len(rows) THEN Append(rows, d.s) ELSE Vec_insert(rows, d.y, d.s),
                 x |-> 0, y |-> d.y]

(***************************************************************************)
(* History (history.rs is not among the sources; after spec.md, 3 and 4.3) *)
(* entries[1..index] is the undo side, entries[index+1..] the redo side,   *)
(* ongoing the active transaction.                                         *)
(***************************************************************************)
History_default == [index |-> 0, ongoing |-> <<>>, entries |-> <<>>]

\* record(op): append to the active transaction and clear the redo side.
History_push(h, diff) ==
  [h EXCEPT !.ongoing = Append(h.ongoing, diff),
            !.entries = SubSeq(h.entries, 1, h.index)]

\* close_active(): seal the active transaction if it holds an op; report the seal.
History_finish_ongoing_edit(h) ==
  IF h.ongoing = <<>>
    THEN [h |-> h, sealed |-> FALSE]
    ELSE [h |-> [index |-> h.index + 1,
                 ongoing |-> <<>>,
                 entries |-> Append(SubSeq(h.entries, 1, h.index), h.ongoing)],
          sealed |-> TRUE]

Reverse(s) == [i \in 1..Len(s) |-> s[Len(s) + 1 - i]]

\* Apply the diffs in order; the cursor of the last one and the lowest line touched.
RECURSIVE History_apply_diffs(_, _, _, _)
History_apply_diffs(diffs, which, rows, acc) ==
  IF diffs = <<>> \/ ~acc.ok
    THEN acc
    ELSE IF ~ApplyPre(Head(diffs), acc.rows, which)
      THEN [acc EXCEPT !.ok = FALSE]
      ELSE LET r == Apply(Head(diffs), acc.rows, which)
           IN  History_apply_diffs(Tail(diffs), which, rows,
                 [rows |-> r.rows, x |-> r.x, y |-> r.y,
                  s |-> IF acc.first THEN r.y ELSE Min(acc.s, r.y),
                  first |-> FALSE, ok |-> TRUE])

ApplyDiffsStart(rows) == [rows |-> rows, x |-> 0, y |-> 0, s |-> 0, first |-> TRUE, ok |-> TRUE]

\* undo(lines): seal the active transaction, then revert the newest sealed one.
\* state is None or Some([x, y, s, edited]); edited: this call sealed an open transaction.
History_undone(f, a) ==
  [h |-> [f.h EXCEPT !.index = f.h.index - 1],
   rows |-> a.rows,
   state |-> Some([x |-> a.x, y |-> a.y, s |-> a.s, edited |-> f.sealed]),
   ok |-> a.ok]

History_undo_sealed(f, rows) ==
  IF f.h.index = 0
    THEN [h |-> f.h, rows |-> rows, state |-> None, ok |-> TRUE]
    ELSE History_undone(f, History_apply_diffs(Reverse(f.h.entries[f.h.index]), "Undo", rows,
                                               ApplyDiffsStart(rows)))

History_undo(h, rows) == History_undo_sealed(History_finish_ongoing_edit(h), rows)

\* redo(lines): re-apply the most recently undone transaction, if one is waiting
\* (none is while a transaction is active: recording cleared the redo side).
History_redone(h, a) ==
  [h |-> [h EXCEPT !.index = h.index + 1],
   rows |-> a.rows,
   state |-> Some([x |-> a.x, y |-> a.y, s |-> a.s, edited |-> FALSE]),
   ok |-> a.ok]

History_redo(h, rows) ==
  IF h.index = Len(h.entries)
    THEN [h |-> h, rows |-> rows, state |-> None, ok |-> TRUE]
    ELSE History_redone(h, History_apply_diffs(h.entries[h.index + 1], "Redo", rows,
                                               ApplyDiffsStart(rows)))

(***************************************************************************)
(* TextBuffer (text_buffer.rs), as operators on the record b of its fields.*)
(* crashed: a method panicked (an index out of range inside apply()).      *)
(***************************************************************************)
TextBuffer_empty ==
  [cx |-> 0, cy |-> 0, file |-> None, row |-> <<Row_empty>>, undo_count |-> 0,
   modified |-> FALSE, history |-> History_default, inserted_undo |-> FALSE,
   dirty_start |-> Some(0), crashed |-> FALSE]

TextBuffer_modified(b) == b.undo_count # 0 \/ b.modified

set_cursor(b, x, y) == [b EXCEPT !.cx = x, !.cy = y]

\* set_dirty_start that keeps the line of the latest operation.
set_dirty_start_latest(b, line) == [b EXCEPT !.dirty_start = Some(line)]

set_dirty_start(b, line) ==
  IF b.dirty_start # None /\ b.dirty_start[1] <= line
    THEN b
    ELSE [b EXCEPT !.dirty_start = Some(line)]

\* apply_diff with r the result of diff.apply(&mut self.row, which).
apply_diff_result(b, r) ==
  set_dirty_start(set_cursor([b EXCEPT !.row = r.rows], r.x, r.y), r.y)

apply_diff(b, diff, which) == apply_diff_result(b, Apply(diff, b.row, which))

\* new_diff that appends to the active transaction and leaves the redo side alone.
new_diff_push_keeping_redo(b1, diff) ==
  [b1 EXCEPT !.modified = TRUE, !.history.ongoing = Append(b1.history.ongoing, diff)]

\* new_diff after apply_diff: modified and history.push.
new_diff_push(b1, diff) ==
  [b1 EXCEPT !.modified = TRUE, !.history = History_push(b1.history, diff)]

\* The lines a panic inside apply() leaves: Row::insert_char has put the character
\* into the line before update_render().unwrap() panics.
PanicRows(diff, rows) ==
  IF diff.t = "InsertChar" /\ diff.y < Len(rows)
    THEN Vec_set(rows, diff.y, Row_insert_char(rows[diff.y + 1], diff.x, diff.c))
    ELSE rows

new_diff(b, diff) ==
  IF b.crashed \/ ~ApplyPre(diff, b.row, "Redo")
    THEN [b EXCEPT !.crashed = TRUE,
                   !.row = IF b.crashed THEN b.row ELSE PanicRows(diff, b.row)]
    ELSE new_diff_push(apply_diff(b, diff, "Redo"), diff)

\* insert_undo_point that does not count the transaction it closes.
insert_undo_point_uncounted(b, f) ==
  [b EXCEPT !.history = f.h, !.modified = FALSE, !.inserted_undo = TRUE]

\* insert_undo_point that counts a transaction whether one was sealed or not.
insert_undo_point_counting(b, f) ==
  [b EXCEPT !.history = f.h, !.undo_count = b.undo_count + 1,
            !.modified = FALSE, !.inserted_undo = TRUE]

\* insert_undo_point with f the result of history.finish_ongoing_edit().
insert_undo_point_sealed(b, f) ==
  [b EXCEPT !.history = f.h,
            !.undo_count = IF f.sealed THEN b.undo_count + 1 ELSE b.undo_count,
            !.modified = FALSE,
            !.inserted_undo = TRUE]

\* insert_undo_point that sets the latch and closes nothing.
insert_undo_point_closing_nothing(b) == [b EXCEPT !.inserted_undo = TRUE]

insert_undo_point(b) ==
  IF ~b.inserted_undo
    THEN insert_undo_point_sealed(b, History_finish_ongoing_edit(b.history))
    ELSE b

\* finish_edit(): clears the latch and the dirty floor; returns the old dirty floor.
finish_edit(b) == [b EXCEPT !.inserted_undo = FALSE, !.dirty_start = None]

\* insert_char once the cursor is on a line.
insert_char_on_line(b1, ch) == new_diff(b1, EditDiff_InsertChar(b1.cx, b1.cy, ch))

\* insert_char that closes the active transaction first, as the structural edits do.
insert_char_sealing(b, ch) ==
  insert_char_on_line(
    insert_undo_point(IF b.cy = Len(b.row) THEN new_diff(b, EditDiff_Newline) ELSE b), ch)

insert_char(b, ch) ==
  insert_char_on_line(IF b.cy = Len(b.row) THEN new_diff(b, EditDiff_Newline) ELSE b, ch)

\* move_cursor_one without its clamp.
move_cursor_unclamped(m) == m

\* A clamp that also closes the active transaction.
move_cursor_clamp_sealing(m) ==
  insert_undo_point(
    IF m.cx > (IF m.cy < Len(m.row) THEN Row_len(m.row[m.cy + 1]) ELSE 0)
      THEN [m EXCEPT !.cx = IF m.cy < Len(m.row) THEN Row_len(m.row[m.cy + 1]) ELSE 0]
      ELSE m)

\* The clamp of cx at the end of move_cursor_one.
move_cursor_clamp(m) ==
  IF m.cx > (IF m.cy < Len(m.row) THEN Row_len(m.row[m.cy + 1]) ELSE 0)
    THEN [m EXCEPT !.cx = IF m.cy < Len(m.row) THEN Row_len(m.row[m.cy + 1]) ELSE 0]
    ELSE m

\* Left that stays at column 0 instead of going to the end of the line above.
move_cursor_left_stopping(b) == IF b.cx > 0 THEN [b EXCEPT !.cx = b.cx - 1] ELSE b

\* CursorDir::Left.
move_cursor_left(b) ==
  IF b.cx > 0 THEN [b EXCEPT !.cx = b.cx - 1]
  ELSE IF b.cy > 0
    THEN [b EXCEPT !.cy = b.cy - 1, !.cx = Row_len(b.row[b.cy])]
    ELSE b

\* Right that stays at the end of the last line instead of going to the sentinel.
move_cursor_right_held(b) ==
  IF b.cy < Len(b.row)
    THEN IF b.cx < Row_len(b.row[b.cy + 1])
           THEN [b EXCEPT !.cx = b.cx + 1]
           ELSE IF b.cy + 1 < Len(b.row) THEN [b EXCEPT !.cy = b.cy + 1, !.cx = 0] ELSE b
    ELSE b

\* CursorDir::Right.
move_cursor_right(b) ==
  IF b.cy < Len(b.row)
    THEN IF b.cx < Row_len(b.row[b.cy + 1])
           THEN [b EXCEPT !.cx = b.cx + 1]
           ELSE [b EXCEPT !.cy = b.cy + 1, !.cx = 0]
    ELSE b

move_cursor_one(b, dir) ==
  move_cursor_clamp(
    CASE dir = "Up" -> [b EXCEPT !.cy = IF b.cy > 0 THEN b.cy - 1 ELSE 0]
      [] dir = "Left" -> move_cursor_left(b)
      [] dir = "Down" ->
           IF b.cy < Len(b.row) THEN [b EXCEPT !.cy = b.cy + 1] ELSE b
      [] dir = "Right" -> move_cursor_right(b))

\* The second new_diff of concat_next_line.
concat_next_line_append(b1, removed) == new_diff(b1, EditDiff_Append(b1.cy, removed))

\* concat_next_line that omits the Append.
concat_next_line_dropping(b) == new_diff(b, EditDiff_DeleteLine(b.cy + 1, b.row[b.cy + 2]))

\* concat_next_line that leaves the cursor at the start of the joined line.
concat_next_line_at_start(b) ==
  [concat_next_line_append(new_diff(b, EditDiff_DeleteLine(b.cy + 1, b.row[b.cy + 2])),
                           b.row[b.cy + 2]) EXCEPT !.cx = 0]

concat_next_line(b) ==
  concat_next_line_append(new_diff(b, EditDiff_DeleteLine(b.cy + 1, b.row[b.cy + 2])),
                          b.row[b.cy + 2])

squash_to_previous_line(b) ==
  concat_next_line([b EXCEPT !.cy = b.cy - 1, !.cx = Row_len(b.row[b.cy])])

\* delete_char after its early return and insert_undo_point.
delete_char_at(b1) ==
  IF b1.cx > 0
    THEN new_diff(b1, EditDiff_DeleteChar(b1.cx, b1.cy,
                        Row_char_at(b1.row[b1.cy + 1], b1.cx - 1)))
    ELSE squash_to_previous_line(b1)

\* delete_char that closes the active transaction before it looks at the cursor.
delete_char_sealing_first(b) ==
  IF b.cy = Len(b.row) \/ (b.cx = 0 /\ b.cy = 0)
    THEN insert_undo_point(b)
    ELSE delete_char_at(insert_undo_point(b))

\* delete_char that steps back from the sentinel to the end of the last line.
delete_char_leaving_sentinel(b) ==
  IF b.cx = 0 /\ b.cy = 0
    THEN b
    ELSE IF b.cy = Len(b.row)
      THEN move_cursor_left(b)
      ELSE delete_char_at(insert_undo_point(b))

\* delete_char that omits insert_undo_point.
delete_char_unsealed(b) ==
  IF b.cy = Len(b.row) \/ (b.cx = 0 /\ b.cy = 0)
    THEN b
    ELSE delete_char_at(b)

delete_char(b) ==
  IF b.cy = Len(b.row) \/ (b.cx = 0 /\ b.cy = 0)
    THEN b
    ELSE delete_char_at(insert_undo_point(b))

\* delete_right_char without its early return.
delete_right_char_unguarded(b) == delete_char(move_cursor_one(b, "Right"))

delete_right_char(b) ==
  IF \/ b.cy = Len(b.row)
     \/ (b.cy = Len(b.row) - 1 /\ b.cx = Row_len(b.row[b.cy + 1]))
    THEN b
    ELSE delete_char(move_cursor_one(b, "Right"))

\* The second new_diff of a split that puts the rest above the line it came from.
insert_line_rest_above(b2, truncated) == new_diff(b2, EditDiff_InsertLine(b2.cy, truncated))

\* The second new_diff of a split inside a line.
insert_line_rest(b2, truncated) == new_diff(b2, EditDiff_InsertLine(b2.cy + 1, truncated))

\* insert_line after insert_undo_point.
insert_line_at(b1) ==
  IF b1.cy >= Len(b1.row)
    THEN new_diff(b1, EditDiff_Newline)
    ELSE IF b1.cx >= Row_len(b1.row[b1.cy + 1])
      THEN new_diff(b1, EditDiff_InsertLine(b1.cy + 1, <<>>))
      ELSE IF b1.cx <= Len(b1.row[b1.cy + 1])
        THEN insert_line_rest(
               new_diff(b1, EditDiff_Truncate(b1.cy, Row_from(b1.row[b1.cy + 1], b1.cx))),
               Row_from(b1.row[b1.cy + 1], b1.cx))
        ELSE b1

\* insert_line that omits insert_undo_point.
insert_line_unsealed(b) == insert_line_at(b)

insert_line(b) == insert_line_at(insert_undo_point(b))

\* after_undoredo that asks for a redraw from the cursor's line whatever happened.
after_undoredo_redrawing(b, state) ==
  IF state # None
    THEN [b |-> set_dirty_start(set_cursor(b, state[1].x, state[1].y), state[1].s),
          ret |-> TRUE]
    ELSE [b |-> set_dirty_start(b, b.cy), ret |-> FALSE]

after_undoredo(b, state) ==
  IF state # None
    THEN [b |-> set_dirty_start(set_cursor(b, state[1].x, state[1].y), state[1].s),
          ret |-> TRUE]
    ELSE [b |-> b, ret |-> FALSE]

\* undo/redo with u the result of history.undo/redo: the lines and the history are
\* the ones it left, the counter moves by delta unless the call sealed the active edit.
undo_redo_counted(b, u, delta) ==
  IF u.state # None
    THEN [b EXCEPT !.history = u.h, !.row = u.rows, !.crashed = b.crashed \/ ~u.ok,
                   !.undo_count = IF ~u.state[1].edited
                                    THEN b.undo_count + delta ELSE b.undo_count,
                   !.modified = FALSE]
    ELSE [b EXCEPT !.history = u.h, !.row = u.rows, !.crashed = b.crashed \/ ~u.ok]

\* undo that leaves the counter alone.
undo_with_uncounted(b, u) == after_undoredo(undo_redo_counted(b, u, 0), u.state)

undo_with(b, u) == after_undoredo(undo_redo_counted(b, u, -1), u.state)

undo(b) == undo_with(b, History_undo(b.history, b.row))

redo_with(b, u) == after_undoredo(undo_redo_counted(b, u, 1), u.state)

redo(b) == redo_with(b, History_redo(b.history, b.row))

\* The only path a buffer is bound to.
Path == "f"

\* save that puts a newline between the lines and none after the last.
RECURSIVE Serialize_joined(_)
Serialize_joined(rows) ==
  IF rows = <<>> THEN <<>>
  ELSE IF Len(rows) = 1 THEN Head(rows)
  ELSE Head(rows) \o <<"\n">> \o Serialize_joined(Tail(rows))

\* writeln!(f, "{}", line) for every line, in order.
RECURSIVE Serialize(_)
Serialize(rows) ==
  IF rows = <<>> THEN <<>> ELSE Head(rows) \o <<"\n">> \o Serialize(Tail(rows))

\* lines() that skips the empty lines.
RECURSIVE ReadLines_skipping(_, _)
ReadLines_skipping(bytes, cur) ==
  IF bytes = <<>>
    THEN IF cur = <<>> THEN <<>> ELSE <<cur>>
    ELSE IF Head(bytes) = "\n"
      THEN (IF cur = <<>> THEN <<>> ELSE <<cur>>) \o ReadLines_skipping(Tail(bytes), <<>>)
      ELSE ReadLines_skipping(Tail(bytes), Append(cur, Head(bytes)))

\* BufRead::lines(): the text before each "\n", and a last unterminated line if any.
RECURSIVE ReadLines(_, _)
ReadLines(bytes, cur) ==
  IF bytes = <<>>
    THEN IF cur = <<>> THEN <<>> ELSE <<cur>>
    ELSE IF Head(bytes) = "\n"
      THEN <<cur>> \o ReadLines(Tail(bytes), <<>>)
      ELSE ReadLines(Tail(bytes), Append(cur, Head(bytes)))

\* open(path) on a disk where the file is missing or holds bytes.
TextBuffer_open(d) ==
  IF ~d.exists
    THEN [TextBuffer_empty EXCEPT !.file = Some(Path)]
    ELSE [TextBuffer_empty EXCEPT !.file = Some(Path), !.row = ReadLines(d.bytes, <<>>)]

\* save that leaves the counter and the flag alone after the write.
save_bound_not_resetting(b1, d, outcome, k) ==
  IF b1.file = None
    THEN [b |-> b1, disk |-> d, ok |-> TRUE, written |-> None]
    ELSE IF outcome = "create_err"
      THEN [b |-> b1, disk |-> d, ok |-> FALSE, written |-> None]
      ELSE IF outcome = "write_err"
        THEN [b |-> b1, disk |-> [exists |-> TRUE, bytes |-> SubSeq(Serialize(b1.row), 1, k)],
              ok |-> FALSE, written |-> None]
        ELSE [b |-> b1,
              disk |-> [exists |-> TRUE, bytes |-> Serialize(b1.row)],
              ok |-> TRUE, written |-> Some(Len(Serialize(b1.row)))]

\* save(): outcome is what the file system does: "ok", "create_err" (File::create
\* fails) or "write_err" (the file was created, so truncated, and a write or the
\* flush fails after k bytes reached the file).
save_bound(b1, d, outcome, k) ==
  IF b1.file = None
    THEN [b |-> b1, disk |-> d, ok |-> TRUE, written |-> None]
    ELSE IF outcome = "create_err"
      THEN [b |-> b1, disk |-> d, ok |-> FALSE, written |-> None]
      ELSE IF outcome = "write_err"
        THEN [b |-> b1, disk |-> [exists |-> TRUE, bytes |-> SubSeq(Serialize(b1.row), 1, k)],
              ok |-> FALSE, written |-> None]
        ELSE [b |-> [b1 EXCEPT !.undo_count = 0, !.modified = FALSE],
              disk |-> [exists |-> TRUE, bytes |-> Serialize(b1.row)],
              ok |-> TRUE, written |-> Some(Len(Serialize(b1.row)))]

\* save that writes a document bound to no path to the default path.
save_binding(b, d, outcome, k) ==
  save_bound([insert_undo_point(b) EXCEPT !.file = Some(Path)], d, outcome, k)

save(b, d, outcome, k) == save_bound(insert_undo_point(b), d, outcome, k)

(***************************************************************************)
(* State: the TextBuffer's fields, the file on disk, the method the key    *)
(* loop called last with its return value, and observers of the run.       *)
(***************************************************************************)
VARIABLES cx, cy, file, row, undo_count, modified, history, inserted_undo,
          dirty_start, crashed, disk, last, ret, track, script, probe

vars == <<cx, cy, file, row, undo_count, modified, history, inserted_undo,
          dirty_start, crashed, disk, last, ret, track, script, probe>>

Buf ==
  [cx |-> cx, cy |-> cy, file |-> file, row |-> row, undo_count |-> undo_count,
   modified |-> modified, history |-> history, inserted_undo |-> inserted_undo,
   dirty_start |-> dirty_start, crashed |-> crashed]

SetBuf(b) ==
  /\ cx' = b.cx
  /\ cy' = b.cy
  /\ file' = b.file
  /\ row' = b.row
  /\ undo_count' = b.undo_count
  /\ modified' = b.modified
  /\ history' = b.history
  /\ inserted_undo' = b.inserted_undo
  /\ dirty_start' = b.dirty_start
  /\ crashed' = b.crashed

\* The files open() may find at the path: none, an empty one, a small text.
InitDisks ==
  { [exists |-> FALSE, bytes |-> <<>>],
    [exists |-> TRUE, bytes |-> <<>>],
    [exists |-> TRUE, bytes |-> <<"a", "b", "\n", "c">>] }

NoDisk == [exists |-> FALSE, bytes |-> <<>>]

\* The one character of the keys where saving is modelled, and the characters and
\* the diffs of the scenario that types "ab", a line break and "c".
OneChar == {"a"}
ScenarioChars == {"a", "b", "c"}
MaxScenarioDiffs == 4

\* What the model keeps to a bounded size: the lines, and the diffs in the history.
RECURSIVE SumLen(_)
SumLen(es) == IF es = <<>> THEN 0 ELSE Len(Head(es)) + SumLen(Tail(es))

DiffCount(h) == Len(h.ongoing) + SumLen(h.entries)

Fits(b, maxd) ==
  /\ Len(b.row) <= MaxLines
  /\ \A i \in 1..Len(b.row) : Len(b.row[i]) <= MaxLineLen
  /\ DiffCount(b.history) <= maxd

Unit == [ok |-> TRUE, v |-> None]

\* The document as a key finds it: lines, cursor, dirty floor.
Seen == [row |-> row, cur |-> <<cx, cy>>, dirty |-> dirty_start]

NoSeen == [row |-> <<>>, cur |-> <<0, 0>>, dirty |-> None]

\* track observes the keys: phase is what the last key that was no cursor move did
\* ("typing": a run of insert_char that began with no active transaction and the
\* cursor on a line, n characters long; "edit": one delete or split or join, of that
\* kind, typed if it followed a typing run; "undone", "redone": undo(), redo(), with
\* what they returned in ok), was the phase before it and okB its ok, pre the
\* document as the run, the edit, the undo or the redo found it, prepre the pre
\* before it, nothing: the undo or redo had no transaction to revert or re-apply,
\* fresh: an edit was recorded while undone transactions waited and no undo()
\* followed yet, everfresh: fresh held at some time.
NoTrack ==
  [phase |-> "none", was |-> "none", n |-> 0, moved |-> FALSE, kind |-> "none",
   typed |-> FALSE, pre |-> NoSeen, prepre |-> NoSeen, ok |-> FALSE, okB |-> FALSE,
   nothing |-> FALSE, fresh |-> FALSE, everfresh |-> FALSE]

NoProbe == [stage |-> "none", way |-> "none", d |-> EditDiff_Newline, orig |-> <<>>]

InitWith(b, d) ==
  /\ cx = b.cx
  /\ cy = b.cy
  /\ file = b.file
  /\ row = b.row
  /\ undo_count = b.undo_count
  /\ modified = b.modified
  /\ history = b.history
  /\ inserted_undo = b.inserted_undo
  /\ dirty_start = b.dirty_start
  /\ crashed = b.crashed
  /\ disk = d
  /\ last = "new"
  /\ ret = Unit
  /\ track = NoTrack
  /\ script = 0
  /\ probe = NoProbe

\* Editor::new (TextBuffer::empty) or Editor::open (TextBuffer::open).
Init ==
  \/ InitWith(TextBuffer_empty, NoDisk)
  \/ \E d \in InitDisks : InitWith(TextBuffer_open(d), d)

(***************************************************************************)
(* The keys of Editor::process_keypress: each calls one TextBuffer method, *)
(* and finish_edit() follows it.  maxd bounds the diffs kept.              *)
(***************************************************************************)
Idle == last \in {"new", "finish_edit"} /\ ~crashed

\* The method returned b; the model follows it while b fits the bounds.
Commit(b, maxd) == Fits(b, maxd) /\ SetBuf(b)

CommitResult(u) == SetBuf(u.b) /\ ret' = [ok |-> u.ret, v |-> None]

CommitSave(s) ==
  /\ SetBuf(s.b)
  /\ disk' = s.disk
  /\ ret' = [ok |-> s.ok, v |-> s.written]

InsertCharKey(ch, maxd) ==
  /\ Idle
  /\ Commit(insert_char(Buf, ch), maxd)
  /\ last' = "insert_char"
  /\ ret' = Unit
  /\ disk' = disk

InsertLineKey(maxd) ==
  /\ Idle
  /\ Commit(insert_line(Buf), maxd)
  /\ last' = "insert_line"
  /\ ret' = Unit
  /\ disk' = disk

DeleteCharKey(maxd) ==
  /\ Idle
  /\ Commit(delete_char(Buf), maxd)
  /\ last' = "delete_char"
  /\ ret' = Unit
  /\ disk' = disk

DeleteRightCharKey(maxd) ==
  /\ Idle
  /\ Commit(delete_right_char(Buf), maxd)
  /\ last' = "delete_right_char"
  /\ ret' = Unit
  /\ disk' = disk

MoveCursorKey(dir) ==
  /\ Idle
  /\ SetBuf(move_cursor_one(Buf, dir))
  /\ last' = "move_cursor_one"
  /\ ret' = Unit
  /\ disk' = disk

UndoKey ==
  /\ Idle
  /\ CommitResult(undo(Buf))
  /\ last' = "undo"
  /\ disk' = disk

RedoKey ==
  /\ Idle
  /\ CommitResult(redo(Buf))
  /\ last' = "redo"
  /\ disk' = disk

SaveKey(outcome, k) ==
  /\ Idle
  /\ CommitSave(save(Buf, disk, outcome, k))
  /\ last' = "save"

FinishEditCall ==
  /\ last \notin {"new", "finish_edit"}
  /\ ~crashed
  /\ SetBuf(finish_edit(Buf))
  /\ last' = "finish_edit"
  /\ ret' = [ok |-> TRUE, v |-> dirty_start]
  /\ disk' = disk

Directions == {"Left", "Right", "Up", "Down"}

(***************************************************************************)
(* Spec: the document under every key, saving included.                    *)
(***************************************************************************)
Unobserved == UNCHANGED <<track, script, probe>>

Char == \E ch \in OneChar : InsertCharKey(ch, MaxDiffs) /\ Unobserved

Enter == InsertLineKey(MaxDiffs) /\ Unobserved

Backspace == DeleteCharKey(MaxDiffs) /\ Unobserved

Delete == DeleteRightCharKey(MaxDiffs) /\ Unobserved

Arrow == \E dir \in Directions : MoveCursorKey(dir) /\ Unobserved

Undo == UndoKey /\ Unobserved

Redo == RedoKey /\ Unobserved

Save == SaveKey("ok", 0) /\ Unobserved

SaveFails == SaveKey("create_err", 0) /\ Unobserved

FinishEdit == FinishEditCall /\ Unobserved

Next ==
  \/ Char
  \/ Enter
  \/ Backspace
  \/ Delete
  \/ Arrow
  \/ Undo
  \/ Redo
  \/ Save
  \/ SaveFails
  \/ FinishEdit

Spec == Init /\ [][Next]_vars

(***************************************************************************)
(* SpecEdit: the editing keys with their observer, two characters, no      *)
(* saving.                                                                 *)
(***************************************************************************)
\* No run, edit, undo or redo is being followed.
Calm(tr) == [NoTrack EXCEPT !.fresh = tr.fresh, !.everfresh = tr.everfresh]

\* A key that records an edit: undone transactions may be waiting.
Recording(tr) ==
  IF history.index < Len(history.entries)
    THEN [tr EXCEPT !.fresh = TRUE, !.everfresh = TRUE]
    ELSE tr

\* The key begins phase ph on the document as it is.
Step(tr, ph, kind, ok, nothing) ==
  [phase |-> ph,
   was |-> tr.phase,
   n |-> IF tr.phase = "typing" THEN tr.n ELSE 0,
   moved |-> IF tr.phase = "typing" THEN tr.moved ELSE FALSE,
   kind |-> IF ph = "edit" THEN kind ELSE IF tr.phase = "edit" THEN tr.kind ELSE "none",
   typed |-> IF ph = "edit" THEN tr.phase = "typing"
             ELSE IF tr.phase = "edit" THEN tr.typed ELSE FALSE,
   pre |-> Seen,
   prepre |-> tr.pre,
   ok |-> ok,
   okB |-> tr.ok,
   nothing |-> nothing,
   fresh |-> tr.fresh,
   everfresh |-> tr.everfresh]

TrackChar ==
  IF track.phase = "typing"
    THEN [track EXCEPT !.n = track.n + 1]
    ELSE IF history.ongoing = <<>> /\ cy < Len(row)
      THEN [Step(Calm(Recording(track)), "typing", "none", TRUE, FALSE) EXCEPT !.n = 1]
      ELSE Calm(Recording(track))

TrackEnter == Step(Recording(track), "edit", "split", TRUE, FALSE)

\* delete_char returns early on the sentinel and at the start of the buffer.
TrackBackspace ==
  IF cy = Len(row) \/ (cx = 0 /\ cy = 0)
    THEN Calm(track)
    ELSE Step(Recording(track), "edit", IF cx > 0 THEN "delete" ELSE "join", TRUE, FALSE)

\* delete_right_char returns early on the sentinel and at the end of the last line.
TrackDelete ==
  IF cy = Len(row) \/ (cy = Len(row) - 1 /\ cx = Row_len(row[cy + 1]))
    THEN Calm(track)
    ELSE Step(Recording(track), "edit",
              IF cx < Row_len(row[cy + 1]) THEN "delete" ELSE "join_right", TRUE, FALSE)

TrackArrow ==
  IF track.phase = "typing" THEN [track EXCEPT !.moved = TRUE] ELSE Calm(track)

TrackUndo(ok) ==
  Step([track EXCEPT !.fresh = track.fresh /\ ~ok], "undone", "none", ok,
       history.index = 0 /\ history.ongoing = <<>>)

TrackRedo(ok) ==
  Step(track, "redone", "none", ok, history.index = Len(history.entries))

Tracked(tr) == track' = tr /\ UNCHANGED <<script, probe>>

EditChar == \E ch \in Chars : InsertCharKey(ch, MaxDiffs) /\ Tracked(TrackChar)

EditEnter == InsertLineKey(MaxDiffs) /\ Tracked(TrackEnter)

EditBackspace == DeleteCharKey(MaxDiffs) /\ Tracked(TrackBackspace)

EditDelete == DeleteRightCharKey(MaxDiffs) /\ Tracked(TrackDelete)

EditArrow == \E dir \in Directions : MoveCursorKey(dir) /\ Tracked(TrackArrow)

EditUndo == UndoKey /\ Tracked(TrackUndo(ret'.ok))

EditRedo == RedoKey /\ Tracked(TrackRedo(ret'.ok))

EditFinish == FinishEditCall /\ Tracked(track)

NextEdit ==
  \/ EditChar
  \/ EditEnter
  \/ EditBackspace
  \/ EditDelete
  \/ EditArrow
  \/ EditUndo
  \/ EditRedo
  \/ EditFinish

SpecEdit == Init /\ [][NextEdit]_vars

(***************************************************************************)
(* SpecScenario: an empty document under the keys of the scenario; script  *)
(* is how far the keys pressed so far follow it (-1: they left it).        *)
(***************************************************************************)
Scenario == <<"a", "b", "Enter", "c", "undo", "undo", "undo">>

ScriptStep(k) ==
  IF script >= 0 /\ script < Len(Scenario) /\ Scenario[script + 1] = k
    THEN script + 1
    ELSE -1

Scripted(k) == script' = ScriptStep(k) /\ UNCHANGED <<track, probe>>

InitScenario == InitWith(TextBuffer_empty, NoDisk)

ScriptChar == \E ch \in ScenarioChars : InsertCharKey(ch, MaxScenarioDiffs) /\ Scripted(ch)

ScriptEnter == InsertLineKey(MaxScenarioDiffs) /\ Scripted("Enter")

ScriptUndo == UndoKey /\ Scripted("undo")

ScriptRedo == RedoKey /\ Scripted("redo")

ScriptFinish == FinishEditCall /\ UNCHANGED <<track, script, probe>>

NextScenario ==
  \/ ScriptChar
  \/ ScriptEnter
  \/ ScriptUndo
  \/ ScriptRedo
  \/ ScriptFinish

SpecScenario == InitScenario /\ [][NextScenario]_vars

(***************************************************************************)
(* SpecApply: EditDiff::apply alone, on every small line collection and    *)
(* every diff whose precondition the collection meets: once in one         *)
(* direction, then once in the other.                                      *)
(***************************************************************************)
ProbeLines == UNION { [1..n -> Chars] : n \in 0..MaxLineLen }

ProbeRows == UNION { [1..n -> ProbeLines] : n \in 0..MaxLines }

ProbeDiffs ==
  {EditDiff_Newline}
    \cup { EditDiff_InsertChar(x, y, c) : x \in 0..MaxLineLen, y \in 0..MaxLines, c \in Chars }
    \cup { EditDiff_DeleteChar(x, y, c) : x \in 0..MaxLineLen, y \in 0..MaxLines, c \in Chars }
    \cup { EditDiff_Append(y, s) : y \in 0..MaxLines, s \in ProbeLines }
    \cup { EditDiff_Truncate(y, s) : y \in 0..MaxLines, s \in ProbeLines }
    \cup { EditDiff_InsertLine(y, s) : y \in 0..MaxLines, s \in ProbeLines }
    \cup { EditDiff_DeleteLine(y, s) : y \in 0..MaxLines, s \in ProbeLines }

EndsWith(r, s) == Len(s) <= Len(r) /\ SubSeq(r, Len(r) - Len(s) + 1, Len(r)) = s

\* The state a diff is made for: the one new_diff builds it in (Redo), the one it
\* leaves (Undo).
OpPre(d, rows, which) ==
  CASE d.t = "InsertChar" ->
         /\ d.y < Len(rows)
         /\ IF which = "Redo"
              THEN d.x <= Row_len(rows[d.y + 1])
              ELSE d.x < Row_len(rows[d.y + 1]) /\ Row_char_at(rows[d.y + 1], d.x) = d.c
    [] d.t = "DeleteChar" ->
         /\ d.y < Len(rows)
         /\ d.x >= 1
         /\ IF which = "Redo"
              THEN d.x <= Row_len(rows[d.y + 1]) /\ Row_char_at(rows[d.y + 1], d.x - 1) = d.c
              ELSE d.x - 1 <= Row_len(rows[d.y + 1])
    [] d.t = "Append" ->
         /\ d.y < Len(rows)
         /\ which = "Undo" => EndsWith(rows[d.y + 1], d.s)
    [] d.t = "Truncate" ->
         /\ d.y < Len(rows)
         /\ which = "Redo" => EndsWith(rows[d.y + 1], d.s)
    [] d.t = "Newline" -> which = "Undo" => (Len(rows) >= 1 /\ rows[Len(rows)] = Row_empty)
    [] d.t = "InsertLine" ->
         /\ d.y >= 1
         /\ IF which = "Redo" THEN d.y <= Len(rows) ELSE d.y < Len(rows) /\ rows[d.y + 1] = d.s
    [] d.t = "DeleteLine" ->
         /\ d.y >= 1
         /\ IF which = "Redo" THEN d.y < Len(rows) /\ rows[d.y + 1] = d.s ELSE d.y <= Len(rows)

First(way) == IF way = "forward_backward" THEN "Redo" ELSE "Undo"

Second(way) == IF way = "forward_backward" THEN "Undo" ELSE "Redo"

InitApply ==
  /\ \E d \in ProbeDiffs, rows \in ProbeRows, way \in {"forward_backward", "backward_forward"} :
       /\ OpPre(d, rows, First(way))
       /\ probe = [stage |-> "start", way |-> way, d |-> d, orig |-> rows]
       /\ row = rows
  /\ cx = 0
  /\ cy = 0
  /\ file = None
  /\ undo_count = 0
  /\ modified = FALSE
  /\ history = History_default
  /\ inserted_undo = FALSE
  /\ dirty_start = None
  /\ crashed = FALSE
  /\ disk = NoDisk
  /\ last = "new"
  /\ ret = Unit
  /\ track = NoTrack
  /\ script = 0

\* One diff.apply(&mut rows, which): the lines and the cursor it returns, or a panic.
ApplyCall(which) ==
  /\ IF ApplyPre(probe.d, row, which)
       THEN /\ row' = Apply(probe.d, row, which).rows
            /\ cx' = Apply(probe.d, row, which).x
            /\ cy' = Apply(probe.d, row, which).y
            /\ crashed' = crashed
       ELSE /\ crashed' = TRUE
            /\ UNCHANGED <<row, cx, cy>>
  /\ last' = which
  /\ UNCHANGED <<file, undo_count, modified, history, inserted_undo, dirty_start, disk, ret,
                 track, script>>

ApplyFirst ==
  /\ probe.stage = "start"
  /\ ApplyCall(First(probe.way))
  /\ probe' = [probe EXCEPT !.stage = "once"]

ApplySecond ==
  /\ probe.stage = "once"
  /\ ~crashed
  /\ ApplyCall(Second(probe.way))
  /\ probe' = [probe EXCEPT !.stage = "twice"]

NextApply ==
  \/ ApplyFirst
  \/ ApplySecond

SpecApply == InitApply /\ [][NextApply]_vars

(***************************************************************************)
(* SpecControl: typing, with a control character among the keys.           *)
(***************************************************************************)
PlainChar == \E ch \in OneChar : InsertCharKey(ch, MaxDiffs) /\ Tracked(Calm(track))

ControlChar ==
  \E ch \in ControlChars :
    InsertCharKey(ch, MaxDiffs) /\ Tracked(Step(Calm(track), "control", "none", FALSE, FALSE))

PlainEnter == InsertLineKey(MaxDiffs) /\ Tracked(Calm(track))

PlainArrow == \E dir \in Directions : MoveCursorKey(dir) /\ Tracked(Calm(track))

PlainFinish == FinishEditCall /\ Tracked(track)

NextControl ==
  \/ PlainChar
  \/ ControlChar
  \/ PlainEnter
  \/ PlainArrow
  \/ PlainFinish

SpecControl == Init /\ [][NextControl]_vars

(***************************************************************************)
(* SpecSave: the keys with save() succeeding, failing at File::create, and *)
(* failing at a write or the flush after any prefix of the text reached    *)
(* the file.  script follows a successful save() that leaves a sealed      *)
(* transaction, the undo() right after it and the redo() right after that: *)
(* 1, 2, 3 on a document bound to a path, 11, 12, 13 on an unbound one,    *)
(* 0 otherwise.                                                            *)
(***************************************************************************)
MaxSaveDiffs == 2

Bound == file # None

SavedScript ==
  IF ret'.ok /\ history'.index >= 1 THEN (IF Bound THEN 1 ELSE 11) ELSE 0

After(from) == IF script \in from THEN script + 1 ELSE 0

Following(s) == script' = s /\ UNCHANGED <<track, probe>>

SaveChar == \E ch \in OneChar : InsertCharKey(ch, MaxSaveDiffs) /\ Following(0)

SaveEnter == InsertLineKey(MaxSaveDiffs) /\ Following(0)

SaveBackspace == DeleteCharKey(MaxSaveDiffs) /\ Following(0)

SaveArrow == \E dir \in Directions : MoveCursorKey(dir) /\ Following(0)

SaveUndo == UndoKey /\ Following(After({1, 11}))

SaveRedo == RedoKey /\ Following(After({2, 12}))

SaveSucceeds == SaveKey("ok", 0) /\ Following(SavedScript)

SaveCreateFails == Bound /\ SaveKey("create_err", 0) /\ Following(0)

SaveWriteFails ==
  /\ Bound
  /\ \E k \in 0..Len(Serialize(row)) : SaveKey("write_err", k)
  /\ Following(0)

SaveFinish == FinishEditCall /\ Following(script)

NextSave ==
  \/ SaveChar
  \/ SaveEnter
  \/ SaveBackspace
  \/ SaveArrow
  \/ SaveUndo
  \/ SaveRedo
  \/ SaveSucceeds
  \/ SaveCreateFails
  \/ SaveWriteFails
  \/ SaveFinish

SpecSave == Init /\ [][NextSave]_vars

(***************************************************************************)
(* SpecLines: documents of up to MaxInitLines lines read from a file, under *)
(* the keys that type, split and delete to the right, and undo.  track     *)
(* keeps the document as the edit found it, probe the character typed.     *)
(***************************************************************************)
MaxInitLines == 3
MaxLinesDiffs == 2

InitLine(n) == [i \in 1..n |-> IF i % 2 = 1 THEN "a" ELSE "b"]

InitDocs == UNION { [1..n -> { InitLine(l) : l \in 0..MaxLineLen }] : n \in 1..MaxInitLines }

OnDisk(rows) == [exists |-> TRUE, bytes |-> Serialize(rows)]

InitLines == \E rows \in InitDocs : InitWith(TextBuffer_open(OnDisk(rows)), OnDisk(rows))

LinesKey(b, name) ==
  /\ Idle
  /\ DiffCount(b.history) <= MaxLinesDiffs
  /\ SetBuf(b)
  /\ last' = name
  /\ ret' = Unit
  /\ disk' = disk

Observed(tr, typed) ==
  /\ track' = tr
  /\ probe' = [NoProbe EXCEPT !.way = typed]
  /\ script' = script

\* insert_char on the sentinel begins with a Newline; the active transaction may
\* hold earlier diffs.
CharKind ==
  IF cy = Len(row)
    THEN (IF history.ongoing = <<>> THEN "sentinel" ELSE "sentinel_open")
    ELSE "char"

\* insert_line splits only with the cursor before the end of a line.
EnterKind ==
  IF cy < Len(row) /\ cx < Row_len(row[cy + 1]) THEN "split" ELSE "break"

EndOfBuffer ==
  \/ cy = Len(row)
  \/ (cy = Len(row) - 1 /\ cx = Row_len(row[cy + 1]))

DeleteKind == IF EndOfBuffer THEN "end" ELSE "right"

\* track keeps the document only for the edits studied: typing on the sentinel,
\* a split inside a line, a delete to the right, and the undo() right after the
\* first of these.
Studied(kind) ==
  IF kind \in {"char", "break"}
    THEN Calm(track)
    ELSE Step(Calm(track), "edit", kind, TRUE, FALSE)

StudiedUndo(ok) ==
  IF track.phase = "edit" /\ track.kind \in {"sentinel", "sentinel_open"}
    THEN TrackUndo(ok)
    ELSE Calm(track)

LinesChar ==
  \E ch \in Chars :
    /\ LinesKey(insert_char(Buf, ch), "insert_char")
    /\ Observed(Studied(CharKind), ch)

LinesEnter ==
  /\ LinesKey(insert_line(Buf), "insert_line")
  /\ Observed(Studied(EnterKind), "none")

LinesDelete ==
  /\ LinesKey(delete_right_char(Buf), "delete_right_char")
  /\ Observed(Studied(DeleteKind), "none")

LinesArrow ==
  \E dir \in Directions : MoveCursorKey(dir) /\ Observed(Calm(track), "none")

LinesUndo == UndoKey /\ Observed(StudiedUndo(ret'.ok), "none")

LinesFinish == FinishEditCall /\ UNCHANGED <<track, script, probe>>

NextLines ==
  \/ LinesChar
  \/ LinesEnter
  \/ LinesDelete
  \/ LinesArrow
  \/ LinesUndo
  \/ LinesFinish

SpecLines == InitLines /\ [][NextLines]_vars

(***************************************************************************)
(* SpecMove: the document under the arrow keys, with typing, line breaks,  *)
(* backspace, undo and redo to give it a history.  probe keeps the key     *)
(* pressed last and where the cursor was.                                  *)
(***************************************************************************)
MaxMoveDiffs == 2

Pressed(key, at) ==
  /\ probe' = [NoProbe EXCEPT !.stage = "key", !.way = key, !.orig = at]
  /\ UNCHANGED <<track, script>>

MoveChar == \E ch \in OneChar : InsertCharKey(ch, MaxMoveDiffs) /\ Pressed("Char", <<>>)

MoveEnter == InsertLineKey(MaxMoveDiffs) /\ Pressed("Enter", <<>>)

MoveBackspace == DeleteCharKey(MaxMoveDiffs) /\ Pressed("Backspace", <<cx, cy>>)

MoveArrow == \E dir \in Directions : MoveCursorKey(dir) /\ Pressed(dir, <<cx, cy>>)

MoveUndo == UndoKey /\ Pressed("Undo", <<>>)

MoveRedo == RedoKey /\ Pressed("Redo", <<>>)

MoveFinish == FinishEditCall /\ UNCHANGED <<track, script, probe>>

NextMove ==
  \/ MoveChar
  \/ MoveEnter
  \/ MoveBackspace
  \/ MoveArrow
  \/ MoveUndo
  \/ MoveRedo
  \/ MoveFinish

SpecMove == Init /\ [][NextMove]_vars

(***************************************************************************)
(* SpecCount: the document under the keys that edit, undo, redo and save.  *)
(* script is the number of sealed transactions on the undo side at the     *)
(* last save() that wrote the file, probe.orig holds that number at the    *)
(* last save() that returned success, file written or not.                 *)
(***************************************************************************)
MaxCountDiffs == 2

Baseline(wrote, succeeded) ==
  /\ script' = IF wrote THEN history'.index ELSE script
  /\ probe' = IF succeeded THEN [NoProbe EXCEPT !.orig = <<history'.index>>] ELSE probe
  /\ track' = track

CountChar == \E ch \in OneChar : InsertCharKey(ch, MaxCountDiffs) /\ Baseline(FALSE, FALSE)

CountEnter == InsertLineKey(MaxCountDiffs) /\ Baseline(FALSE, FALSE)

CountBackspace == DeleteCharKey(MaxCountDiffs) /\ Baseline(FALSE, FALSE)

CountArrow == \E dir \in Directions : MoveCursorKey(dir) /\ Baseline(FALSE, FALSE)

CountUndo == UndoKey /\ Baseline(FALSE, FALSE)

CountRedo == RedoKey /\ Baseline(FALSE, FALSE)

CountSave == SaveKey("ok", 0) /\ Baseline(file # None, TRUE)

CountSaveFails == file # None /\ SaveKey("create_err", 0) /\ Baseline(FALSE, FALSE)

CountFinish == FinishEditCall /\ Baseline(FALSE, FALSE)

NextCount ==
  \/ CountChar
  \/ CountEnter
  \/ CountBackspace
  \/ CountArrow
  \/ CountUndo
  \/ CountRedo
  \/ CountSave
  \/ CountSaveFails
  \/ CountFinish

SpecCount == Init /\ [][NextCount]_vars

(***************************************************************************)
(* SpecErase: documents read from a file with a line of up to MaxEraseLen  *)
(* characters, under the keys that type, erase to the left, move, undo and *)
(* redo.  probe.orig holds the lines as each backspace of the current run  *)
(* of backspaces that removed a character found them, the last one first;  *)
(* any other key, and a backspace that removed none, ends the run.         *)
(***************************************************************************)
MaxEraseLen == 3
MaxEraseDiffs == 3

EraseDocs ==
  { <<InitLine(n)>> : n \in 1..MaxEraseLen } \cup
  { <<InitLine(1), InitLine(n)>> : n \in 1..MaxEraseLen }

InitErase == \E rows \in EraseDocs : InitWith(TextBuffer_open(OnDisk(rows)), OnDisk(rows))

EraseKey(b, name) ==
  /\ Idle
  /\ DiffCount(b.history) <= MaxEraseDiffs
  /\ SetBuf(b)
  /\ last' = name
  /\ ret' = Unit
  /\ disk' = disk

\* The run of backspaces after a backspace on the document as it is.
Erased ==
  IF cx > 0 /\ cy < Len(row)
    THEN [NoProbe EXCEPT !.stage = "erase", !.orig = <<row>> \o probe.orig]
    ELSE NoProbe

RunIs(pr) == probe' = pr /\ UNCHANGED <<track, script>>

EraseChar == \E ch \in OneChar : EraseKey(insert_char(Buf, ch), "insert_char") /\ RunIs(NoProbe)

EraseBackspace == EraseKey(delete_char(Buf), "delete_char") /\ RunIs(Erased)

EraseArrow == \E dir \in Directions : MoveCursorKey(dir) /\ RunIs(NoProbe)

EraseUndo == UndoKey /\ RunIs(NoProbe)

EraseRedo == RedoKey /\ RunIs(NoProbe)

EraseFinish == FinishEditCall /\ UNCHANGED <<track, script, probe>>

NextErase ==
  \/ EraseChar
  \/ EraseBackspace
  \/ EraseArrow
  \/ EraseUndo
  \/ EraseRedo
  \/ EraseFinish

SpecErase == InitErase /\ [][NextErase]_vars

(***************************************************************************)
(* SpecRow: one Row under its editing methods, with characters of 1 to 4   *)
(* bytes.  probe.orig is the Row at the level of bytes, row its one line   *)
(* at the level of characters, under the same calls.                       *)
(***************************************************************************)
MaxRowChars == 3
MaxAppendChars == 2

RowTexts == UNION { [1..n -> RowChars] : n \in 0..MaxAppendChars }

InitRow == InitWith(TextBuffer_empty, NoDisk)

RowStarted == IF probe.stage = "row" THEN probe.orig ELSE RowBuf_empty

\* A method of Row returned r for the bytes and line for the characters.
RowCall(name, r, line) ==
  /\ ~crashed
  /\ Len(line) <= MaxRowChars
  /\ probe' = [NoProbe EXCEPT !.stage = "row", !.way = name, !.orig = r]
  /\ row' = <<line>>
  /\ crashed' = ~r.ok
  /\ UNCHANGED <<cx, cy, file, undo_count, modified, history, inserted_undo, dirty_start,
                 disk, ret, track, script>>

RowInsertChar ==
  \E at \in 0..(MaxRowChars + 1), c \in RowChars :
    /\ RowCall("insert_char", RowBuf_insert_char(RowStarted, at, c),
               Row_insert_char(row[1], at, c))
    /\ last' = "insert_char"

RowRemoveChar ==
  \E at \in 0..(Len(row[1]) - 1) :
    /\ RowCall("remove_char", RowBuf_remove_char(RowStarted, at), Row_remove_char(row[1], at))
    /\ last' = "remove_char"

RowAppend ==
  \E s \in RowTexts :
    /\ RowCall("append", RowBuf_append(RowStarted, Str_of(s)), Row_append(row[1], s))
    /\ last' = "append"

RowTruncate ==
  \E at \in 0..(MaxRowChars + 1) :
    /\ RowCall("truncate", RowBuf_truncate(RowStarted, at), Row_truncate(row[1], at))
    /\ last' = "truncate"

RowRemove ==
  \E start \in 0..Len(row[1]), end \in 0..Len(row[1]) :
    /\ RowCall("remove", RowBuf_remove(RowStarted, start, end), Row_remove(row[1], start, end))
    /\ last' = "remove"

NextRow ==
  \/ RowInsertChar
  \/ RowRemoveChar
  \/ RowAppend
  \/ RowTruncate
  \/ RowRemove

SpecRow == InitRow /\ [][NextRow]_vars

(***************************************************************************)
(* SpecQuit: the key loop of Editor with ^Q and unidentified keys among    *)
(* the keys, on one buffer.  script is 1 while Editor::quitting is set;    *)
(* probe.stage is "quit" once process_keypress returned EditStep::Quit,    *)
(* probe.way the key pressed last and probe.orig the identified key        *)
(* pressed last.                                                           *)
(***************************************************************************)
MaxQuitDiffs == 2

quitting == script = 1

Quit == probe.stage = "quit"

\* handle_quit that asks for no confirmation.
handle_quit_unconfirmed(b, q) == [quit |-> TRUE, quitting |-> q]

\* handle_quit(): quit when no buffer is modified or the confirmation is armed, arm
\* it otherwise.
handle_quit(b, q) ==
  IF ~TextBuffer_modified(b) \/ q
    THEN [quit |-> TRUE, quitting |-> q]
    ELSE [quit |-> FALSE, quitting |-> TRUE]

\* process_keypress on an identified key other than ^Q ends with quitting = false.
Identified ==
  /\ ~Quit
  /\ probe' = [NoProbe EXCEPT !.stage = "run", !.way = "key", !.orig = <<"key">>]
  /\ script' = 0
  /\ track' = track

QuitChar == \E ch \in OneChar : InsertCharKey(ch, MaxQuitDiffs) /\ Identified

QuitEnter == InsertLineKey(MaxQuitDiffs) /\ Identified

QuitBackspace == DeleteCharKey(MaxQuitDiffs) /\ Identified

QuitArrow == \E dir \in Directions : MoveCursorKey(dir) /\ Identified

QuitUndo == UndoKey /\ Identified

QuitRedo == RedoKey /\ Identified

QuitSave == SaveKey("ok", 0) /\ Identified

QuitSaveFails == file # None /\ SaveKey("create_err", 0) /\ Identified

QuitFinish == ~Quit /\ FinishEditCall /\ UNCHANGED <<track, script, probe>>

\* An unidentified key: process_keypress returns at once.
QuitUnidentified ==
  /\ Idle
  /\ ~Quit
  /\ probe' = [probe EXCEPT !.stage = "run", !.way = "Unidentified"]
  /\ UNCHANGED <<cx, cy, file, row, undo_count, modified, history, inserted_undo,
                 dirty_start, crashed, disk, last, ret, track, script>>

\* ^Q: process_keypress returns what handle_quit returns.
QuitCtrlQ ==
  /\ Idle
  /\ ~Quit
  /\ probe' = [NoProbe EXCEPT
                 !.stage = IF handle_quit(Buf, quitting).quit THEN "quit" ELSE "run",
                 !.way = "^Q",
                 !.orig = <<"^Q">>]
  /\ script' = IF handle_quit(Buf, quitting).quitting THEN 1 ELSE 0
  /\ UNCHANGED <<cx, cy, file, row, undo_count, modified, history, inserted_undo,
                 dirty_start, crashed, disk, last, ret, track>>

NextQuit ==
  \/ QuitChar
  \/ QuitEnter
  \/ QuitBackspace
  \/ QuitArrow
  \/ QuitUndo
  \/ QuitRedo
  \/ QuitSave
  \/ QuitSaveFails
  \/ QuitFinish
  \/ QuitUnidentified
  \/ QuitCtrlQ

SpecQuit == Init /\ [][NextQuit]_vars

(***************************************************************************)
(* SpecScreen: one Screen under set_info_message, set_error_message,       *)
(* unset_message and render.  probe.orig is the Screen, probe.d the        *)
(* arguments of the last call of DrawMessage::fold.                        *)
(***************************************************************************)
MaxMessages == 3

\* The texts of the messages: 0 is the help message of Screen::new.
MessageTexts == 0..MaxMessages

ScreenNow == IF probe.stage = "screen" THEN probe.orig ELSE Screen_new

FoldArgs == IF probe.stage = "screen" THEN probe.d ELSE <<>>

\* A method of Screen returned sc; args are the arguments of the fold it called.
ScreenCall(sc, args) ==
  /\ ~crashed
  /\ probe' = [NoProbe EXCEPT !.stage = "screen", !.d = args, !.orig = sc]
  /\ crashed' = sc.panicked
  /\ UNCHANGED <<cx, cy, file, row, undo_count, modified, history, inserted_undo,
                 dirty_start, disk, ret, track, script>>

ScreenSetInfo ==
  \E text \in MessageTexts :
    /\ ScreenCall(Screen_set_info_message(ScreenNow, text),
                  <<ScreenNow.draw_message,
                    Screen_set_message_op(ScreenNow.message, Some(StatusMessage_new(text, "Info")))>>)
    /\ last' = "set_info_message"

ScreenSetError ==
  \E text \in MessageTexts :
    /\ ScreenCall(Screen_set_error_message(ScreenNow, text),
                  <<ScreenNow.draw_message,
                    Screen_set_message_op(ScreenNow.message, Some(StatusMessage_new(text, "Error")))>>)
    /\ last' = "set_error_message"

ScreenUnset ==
  /\ ScreenCall(Screen_unset_message(ScreenNow),
                <<ScreenNow.draw_message, Screen_set_message_op(ScreenNow.message, None)>>)
  /\ last' = "unset_message"

ScreenRender ==
  /\ ScreenCall(Screen_after_render(ScreenNow), FoldArgs)
  /\ last' = "render"

NextScreen ==
  \/ ScreenSetInfo
  \/ ScreenSetError
  \/ ScreenUnset
  \/ ScreenRender

\* Screen::new, in an editor with a new document.
InitScreen == InitWith(TextBuffer_empty, NoDisk)

SpecScreen == InitScreen /\ [][NextScreen]_vars

(***************************************************************************)
(* Properties                                                              *)
(***************************************************************************)
Cursor == <<cx, cy>>

\* C1: a run of N >= 1 insert_char keys (finish_edit after each; cursor moves may
\* come between them, no other key) that began with no active transaction and the
\* cursor on a line is reverted by one undo(): it returns true, the lines are those
\* before the first insertion, the cursor is where the first character went in.
C1_TypingRunUndoneAtOnce ==
  (track.phase = "undone" /\ track.was = "typing") =>
    /\ track.ok
    /\ row = track.prepre.row
    /\ Cursor = track.prepre.cur

C1_Witness ==
  /\ track.phase = "undone"
  /\ track.was = "typing"
  /\ track.n >= 2
  /\ ~track.moved
  /\ last = "undo"

C3_ScenarioAsCoded ==
  /\ script = 4 => (row = << <<"a", "b">>, <<"c">> >> /\ Cursor = <<1, 1>>)
  /\ script = 5 => (/\ row = << <<"a", "b">> >>
                    /\ Cursor = <<2, 0>>
                    /\ last = "undo" => ret.ok)
  /\ script = 6 => (/\ row = << <<>> >>
                    /\ Cursor = <<0, 0>>
                    /\ last = "undo" => ret.ok)
  /\ script = 7 => (/\ row = << <<>> >>
                    /\ Cursor = <<0, 0>>
                    /\ last = "undo" => ~ret.ok)

C3_Witness == script = 7 /\ last = "undo"

\* C3 as stated: the three undo() calls give ["ab",""] with (0,1), ["ab"] with (2,0)
\* and [""] with (0,0), each returning true.
C3_ScenarioAsStated ==
  /\ script = 4 => (row = << <<"a", "b">>, <<"c">> >> /\ Cursor = <<1, 1>>)
  /\ script = 5 => (/\ row = << <<"a", "b">>, <<>> >>
                    /\ Cursor = <<0, 1>>
                    /\ last = "undo" => ret.ok)
  /\ script = 6 => (/\ row = << <<"a", "b">> >>
                    /\ Cursor = <<2, 0>>
                    /\ last = "undo" => ret.ok)
  /\ script = 7 => (/\ row = << <<>> >>
                    /\ Cursor = <<0, 0>>
                    /\ last = "undo" => ret.ok)

\* C4: for each of the seven diffs and every line collection that meets its
\* precondition, apply(Redo) then apply(Undo), and apply(Undo) then apply(Redo),
\* run to their end and give back the line collection they started from.
C4_ApplyRoundTrip == probe.stage = "twice" => (~crashed /\ row = probe.orig)

C4_Witness ==
  /\ probe.stage = "twice"
  /\ probe.d.t = "DeleteLine"
  /\ probe.way = "forward_backward"
  /\ probe.orig # <<>>
  /\ row = probe.orig

\* C5: an undo() that returned true followed at once by redo(), and a redo() that
\* returned true followed at once by undo(): the second call returns true and the
\* lines are what they were before the first.
C5_UndoRedoRestoreLines ==
  /\ (track.phase = "redone" /\ track.was = "undone" /\ track.okB) =>
       (track.ok /\ row = track.prepre.row)
  /\ (track.phase = "undone" /\ track.was = "redone" /\ track.okB) =>
       (track.ok /\ row = track.prepre.row)

C5_Witness ==
  /\ track.phase = "redone"
  /\ track.was = "undone"
  /\ track.okB
  /\ track.pre.row # row
  /\ last = "redo"

\* C6, amended: while a transaction is active no undone transaction is available
\* (recording cleared them), and after an edit recorded while undone transactions
\* were waiting every redo() that no undo() precedes returns false and leaves the
\* lines alone.
C6_RedoGoneUntilNextUndo ==
  /\ history.ongoing # <<>> => history.index = Len(history.entries)
  /\ (track.fresh /\ track.phase = "redone") => (~track.ok /\ row = track.pre.row)

C6_Witness == track.fresh /\ track.phase = "redone" /\ last = "redo"

\* C6 as stated: after an edit recorded while undone transactions were waiting,
\* every later redo() returns false.
C6_NoRedoEverAfter == (track.everfresh /\ track.phase = "redone") => ~track.ok

\* The lines with line y (0-based, y >= 1) joined onto the line before it.
Joined(rows, y) ==
  SubSeq(rows, 1, y - 1) \o <<rows[y] \o rows[y + 1]>> \o SubSeq(rows, y + 2, Len(rows))

C8_NothingToUndoOrRedo ==
  (track.phase \in {"undone", "redone"} /\ track.nothing) =>
    /\ ~track.ok
    /\ row = track.pre.row
    /\ Cursor = track.pre.cur
    /\ last \in {"undo", "redo"} => dirty_start = track.pre.dirty

C8_Witness ==
  /\ track.phase = "undone"
  /\ track.nothing
  /\ last = "undo"
  /\ Len(history.entries) >= 1
  /\ track.pre.dirty = None

\* C9: the line collection holds at least one line in every state.
C9_LinesNeverEmpty == Len(row) >= 1

\* C10: cy <= line count; cx <= length of line cy when cy < line count; cx = 0 when
\* cy is the line count.
C10_CursorInvariant ==
  /\ cy <= Len(row)
  /\ cy < Len(row) => cx <= Row_len(row[cy + 1])
  /\ cy = Len(row) => cx = 0

C10_Witness ==
  /\ last = "save"
  /\ ret.ok
  /\ cy = Len(row)
  /\ Len(row) >= 1
  /\ history.index >= 1
  /\ history.index < Len(history.entries)

\* C11: insert_char with a control character does not crash and leaves the lines
\* and the cursor as they were.
C11_ControlCharRejected ==
  track.phase = "control" =>
    /\ ~crashed
    /\ row = track.pre.row
    /\ Cursor = track.pre.cur

\* The offset in the file of line i (1-based) when every line before it is followed
\* by one newline.
RECURSIVE OffsetOf(_, _)
OffsetOf(rows, i) == IF i = 1 THEN 0 ELSE OffsetOf(rows, i - 1) + Len(rows[i - 1]) + 1

\* C12: a save() that succeeds on a document bound to a path leaves in the file the
\* content of every line, in order, each followed by one newline and nothing else,
\* reports that many bytes, and leaves the counter 0, the flag false and modified()
\* false.
C12_SaveWritesEveryLine ==
  (last = "save" /\ ret.ok /\ Bound) =>
    /\ disk.exists
    /\ Len(disk.bytes) = OffsetOf(row, Len(row) + 1)
    /\ \A i \in 1..Len(row) :
         /\ SubSeq(disk.bytes, OffsetOf(row, i) + 1, OffsetOf(row, i) + Len(row[i])) = row[i]
         /\ disk.bytes[OffsetOf(row, i) + Len(row[i]) + 1] = "\n"
    /\ ret.v = Some(Len(disk.bytes))
    /\ undo_count = 0
    /\ ~modified
    /\ ~TextBuffer_modified(Buf)

C12_Witness ==
  /\ last = "save"
  /\ ret.ok
  /\ Bound
  /\ Len(row) = 2
  /\ row[1] # Row_empty
  /\ history.index >= 1

\* C13: a save() that fails leaves the lines and the cursor as they were, and if
\* modified() was true before it, it is true after it.
C13_FailedSaveKeepsUnsaved ==
  [][(last' = "save" /\ ~ret'.ok) =>
       /\ row' = row
       /\ cx' = cx
       /\ cy' = cy
       /\ TextBuffer_modified(Buf) => (undo_count' # 0 \/ modified')]_vars

\* C14, amended: after a save() that succeeds on a document bound to a path the
\* counter is 0.
C14_CounterZeroAfterBoundSave == (last = "save" /\ ret.ok /\ Bound) => undo_count = 0

C14_Witness ==
  /\ last = "save"
  /\ ret.ok
  /\ Bound
  /\ undo_count = 0
  /\ history.index >= 1
  /\ history.index < Len(history.entries)

\* C14 as stated: after every save() that returns success the counter is 0.
C14_CounterZeroAfterEverySave == (last = "save" /\ ret.ok) => undo_count = 0

\* C15, amended: on a document bound to a path, the undo() right after a successful
\* save() that left a sealed transaction makes the counter -1 and modified() true,
\* and the redo() right after it makes the counter 0 and modified() false.
C15_UndoRedoAcrossBoundSave ==
  /\ script = 2 => (undo_count = -1 /\ TextBuffer_modified(Buf))
  /\ script = 3 => (undo_count = 0 /\ ~TextBuffer_modified(Buf))

C15_Witness == script = 3 /\ last = "redo"

\* C15 as stated: the same on every document, bound to a path or not.
C15_UndoRedoAcrossAnySave ==
  /\ script \in {2, 12} => (undo_count = -1 /\ TextBuffer_modified(Buf))
  /\ script \in {3, 13} => (undo_count = 0 /\ ~TextBuffer_modified(Buf))

\* C16: save() on a document bound to no path returns success with an empty
\* message, leaves the disk, the binding, the lines and the cursor as they were.
C16_UnboundSaveWritesNothing ==
  [][(last' = "save" /\ ~Bound) =>
       /\ ret' = [ok |-> TRUE, v |-> None]
       /\ disk' = disk
       /\ file' = None
       /\ row' = row
       /\ cx' = cx
       /\ cy' = cy]_vars

C16_Witness ==
  /\ last = "save"
  /\ ~Bound
  /\ ret = [ok |-> TRUE, v |-> None]
  /\ ~disk.exists
  /\ history.index >= 1
  /\ Len(row) = 2

\* C17: after a save() that succeeds on a document bound to a path, open() of the
\* path gives the same lines: as many, with the same content, in the same order.
C17_SaveThenOpen ==
  (last = "save" /\ ret.ok /\ Bound) =>
    /\ Len(TextBuffer_open(disk).row) = Len(row)
    /\ \A i \in 1..Len(row) : TextBuffer_open(disk).row[i] = row[i]

C17_Witness ==
  /\ last = "save"
  /\ ret.ok
  /\ Bound
  /\ Len(row) = 2
  /\ row[2] = Row_empty
  /\ TextBuffer_open(disk).row = row

\* The document after a split of line y of old at column x.
SplitInside(old, x, y) ==
  /\ Len(row) = Len(old) + 1
  /\ row[y + 1] = SubSeq(old[y + 1], 1, x)
  /\ row[y + 2] = SubSeq(old[y + 1], x + 1, Len(old[y + 1]))
  /\ row[y + 1] \o row[y + 2] = old[y + 1]
  /\ \A i \in 1..y : row[i] = old[i]
  /\ \A i \in (y + 2)..Len(old) : row[i + 1] = old[i]
  /\ Cursor = <<0, y + 1>>

\* C18: insert_line with the cursor strictly inside line cy leaves in line cy its
\* first cx characters and puts the rest in a new line cy+1, the other lines stay as
\* they were and in order, the cursor is at (0, cy+1), and the two lines joined are
\* the original line.
C18_SplitInsideLine ==
  (track.phase = "edit" /\ track.kind = "split") =>
    SplitInside(track.pre.row, track.pre.cur[1], track.pre.cur[2])

C18_Witness ==
  /\ last = "insert_line"
  /\ track.phase = "edit"
  /\ track.kind = "split"
  /\ Len(track.pre.row) = 3
  /\ track.pre.cur = <<1, 1>>
  /\ row[2] # Row_empty
  /\ row[3] # Row_empty
  /\ row[1] # row[4]

SentinelKinds == {"sentinel", "sentinel_open"}

\* The document after c was typed on the sentinel below the lines old.
SentinelTyped(old, c) ==
  /\ Len(row) = Len(old) + 1
  /\ row[Len(old) + 1] = <<c>>
  /\ \A i \in 1..Len(old) : row[i] = old[i]
  /\ Cursor = <<1, Len(old)>>
  /\ Len(history.ongoing) >= 2
  /\ history.ongoing[Len(history.ongoing) - 1] = EditDiff_Newline
  /\ history.ongoing[Len(history.ongoing)] = EditDiff_InsertChar(0, Len(old), c)

\* The document after the undo() that follows: the new line is gone with the
\* character, and the lines are those of before the key when the key began the
\* transaction.
SentinelUndone(old, kind) ==
  /\ ret.ok
  /\ Len(row) <= Len(old)
  /\ kind = "sentinel" => (row = old /\ history.ongoing = <<>>)

\* C19: insert_char(c) on the sentinel below n lines gives n+1 lines, line n being
\* exactly c and lines 0..n-1 as they were, with the cursor at (1, n); the new line
\* and the character are recorded in one transaction, and one undo() removes both.
C19_TypingOnSentinel ==
  /\ (track.phase = "edit" /\ track.kind \in SentinelKinds) =>
       SentinelTyped(track.pre.row, probe.way)
  /\ (track.phase = "undone" /\ track.kind \in SentinelKinds) =>
       SentinelUndone(track.prepre.row, track.kind)

C19_Witness ==
  /\ last = "undo"
  /\ track.phase = "undone"
  /\ track.kind = "sentinel"
  /\ ret.ok
  /\ Len(track.prepre.row) >= 2
  /\ Len(track.pre.row) = Len(track.prepre.row) + 1
  /\ row = track.prepre.row

\* The step leaves the lines, the cursor, the history and the counter of b.
Gives(b) ==
  /\ row' = b.row
  /\ cx' = b.cx
  /\ cy' = b.cy
  /\ history' = b.history
  /\ undo_count' = b.undo_count

\* C20: delete_right_char leaves the lines, the cursor, the history and the counter
\* that move_cursor(Right) followed by delete_char leave, except on the sentinel and
\* at the end of the last line, where it changes none of them.
C20_DeleteRightIsRightThenDelete ==
  [][last' = "delete_right_char" =>
       IF EndOfBuffer
         THEN Gives(Buf)
         ELSE Gives(delete_char(move_cursor_one(Buf, "Right")))]_vars

C20_Witness ==
  /\ last = "delete_right_char"
  /\ track.phase = "edit"
  /\ track.kind = "right"
  /\ Len(track.pre.row) = 3
  /\ Len(row) = 2
  /\ track.pre.cur[2] = 0
  /\ track.pre.row[1] # Row_empty
  /\ track.pre.row[2] # Row_empty
  /\ Len(history.ongoing) = 2

\* C21: delete_char() with the cursor at (0,0) changes nothing: the lines, the
\* cursor, the dirty floor, the counter and the history, whose active transaction
\* stays open, are as they were.
C21_BackspaceAtStart ==
  [][(last' = "delete_char" /\ cx = 0 /\ cy = 0) =>
       UNCHANGED <<row, cx, cy, dirty_start, undo_count, history>>]_vars

C21_Witness ==
  /\ last = "delete_char"
  /\ probe.way = "Backspace"
  /\ probe.orig = <<0, 0>>
  /\ Cursor = <<0, 0>>
  /\ Len(row) = 2
  /\ history.ongoing # <<>>
  /\ history.index >= 1

\* C22: Left takes one from cx when cx > 0; at column 0 of a line cy > 0 it goes to
\* the end of line cy-1; at (0,0) the cursor stays.
C22_MoveLeft ==
  [][(last' = "move_cursor_one" /\ probe'.way = "Left") =>
       <<cx', cy'>> = IF cx > 0 THEN <<cx - 1, cy>>
                      ELSE IF cy > 0 THEN <<Len(row[cy]), cy - 1>>
                      ELSE <<0, 0>>]_vars

C22_Witness ==
  /\ last = "move_cursor_one"
  /\ probe.way = "Left"
  /\ probe.orig = <<0, 1>>
  /\ Cursor = <<2, 0>>
  /\ Len(row) = 2

\* C23: Right adds one to cx when cx is less than the length of line cy; at the end
\* of any line, the last included, it goes to (0, cy+1); on the sentinel the cursor
\* stays.
C23_MoveRight ==
  [][(last' = "move_cursor_one" /\ probe'.way = "Right") =>
       <<cx', cy'>> = IF cy >= Len(row) THEN <<cx, cy>>
                      ELSE IF cx < Len(row[cy + 1]) THEN <<cx + 1, cy>>
                      ELSE <<0, cy + 1>>]_vars

C23_Witness ==
  /\ last = "move_cursor_one"
  /\ probe.way = "Right"
  /\ Len(row) = 2
  /\ row[2] # Row_empty
  /\ probe.orig = <<Len(row[2]), 1>>
  /\ Cursor = <<0, 2>>

\* C24: a cursor move in any direction leaves the lines, the history, the counter,
\* the modified flag and the dirty floor as they were.
C24_MoveRecordsNothing ==
  [][last' = "move_cursor_one" =>
       UNCHANGED <<row, history, undo_count, modified, dirty_start>>]_vars

C24_Witness ==
  /\ last = "move_cursor_one"
  /\ probe.way \in Directions
  /\ probe.orig # Cursor
  /\ history.ongoing # <<>>
  /\ history.index >= 1
  /\ modified
  /\ undo_count # 0

\* Line i (from 0) is not the same before and after the step.
Differs(i) == i >= Len(row) \/ i >= Len(row') \/ row[i + 1] # row'[i + 1]

Keystrokes ==
  {"insert_char", "insert_line", "delete_char", "delete_right_char", "move_cursor_one",
   "undo", "redo"}

\* The dirty floor after a key that changed the lines is at or above every line that
\* differs.
FloorCoversChange ==
  (last' \in Keystrokes /\ row' # row) =>
    /\ dirty_start' # None
    /\ \A i \in 0..(Len(row) + Len(row')) : Differs(i) => dirty_start'[1] <= i

\* finish_edit() returns the dirty floor and leaves it empty.
FinishReturnsFloor == last' = "finish_edit" => (ret'.v = dirty_start /\ dirty_start' = None)

\* C25, amended: after a key that changed the lines, the following finish_edit()
\* returns Some(d) with d at or above every line that differs, and leaves the floor
\* empty; a key that changes no line leaves an empty floor empty, unless it is an
\* undo() or redo() that found a transaction.
C25_DirtyFloor ==
  [][/\ FloorCoversChange
     /\ FinishReturnsFloor
     /\ (last' \in Keystrokes /\ row' = row /\ dirty_start = None
           /\ ~(last' \in {"undo", "redo"} /\ ret'.ok)) => dirty_start' = None]_vars

C25_Witness ==
  /\ last = "finish_edit"
  /\ ret.v = Some(1)
  /\ dirty_start = None
  /\ track.phase = "undone"
  /\ track.ok
  /\ track.pre.dirty = None
  /\ row # track.pre.row
  /\ row[1] = track.pre.row[1]

\* C25 as stated: every key that changes no line leaves an empty floor empty.
C25_DirtyFloorEveryKey ==
  [][/\ FloorCoversChange
     /\ FinishReturnsFloor
     /\ (last' \in Keystrokes /\ row' = row /\ dirty_start = None) => dirty_start' = None]_vars

\* The lines a quit would leave behind: those of the file the document is bound to,
\* as open() reads them, or those of a new document when it is bound to none.
Kept == IF file # None THEN TextBuffer_open(disk).row ELSE TextBuffer_empty.row

\* C26: when the lines differ from those of the last successful save, or of the
\* creation or the opening when nothing was saved, modified() is true.
C26_ModifiedWhenLinesDiffer == row # Kept => TextBuffer_modified(Buf)

\* The sealed transactions on the undo side at the last save() that returned success.
AtLastSuccess == IF probe.orig = <<>> THEN 0 ELSE probe.orig[1]

\* C27, amended: the counter is the number of sealed transactions on the undo side
\* minus the number that were there at the last save() that wrote the file, or at
\* the creation or the opening.
C27_CounterIsSealedSinceSave == undo_count = history.index - script

C27_Witness ==
  /\ undo_count = -1
  /\ script = 2
  /\ history.index = 1
  /\ Len(history.entries) = 1
  /\ last = "insert_line"

\* C27 as stated: the same with the last save() that returned success.
C27_CounterIsSealedSinceSuccess == undo_count = history.index - AtLastSuccess

\* The diffs the step recorded: those added to the active transaction, which is a
\* new one when the step sealed the one before.
Recorded ==
  IF /\ history'.index = history.index
     /\ Len(history'.entries) = Len(history.entries)
     /\ Len(history'.ongoing) >= Len(history.ongoing)
    THEN SubSeq(history'.ongoing, Len(history.ongoing) + 1, Len(history'.ongoing))
    ELSE history'.ongoing

\* The transaction an undo() that returned true has reverted, and the one a redo()
\* that returned true has re-applied.
Undone == history'.entries[history'.index + 1]

Redone == history'.entries[history'.index]

EditCalls == {"insert_char", "insert_line", "delete_char", "delete_right_char"}

RECURSIVE Flatten(_)
Flatten(rows) == IF rows = <<>> THEN <<>> ELSE Head(rows) \o Flatten(Tail(rows))

\* The ops of a split follow one another in tx, and so do the ops of a join.
Paired(tx) ==
  \A i \in 1..Len(tx) :
    /\ tx[i].t = "Truncate" =>
         (i < Len(tx) /\ tx[i + 1] = EditDiff_InsertLine(tx[i].y + 1, tx[i].s))
    /\ (tx[i].t = "InsertLine" /\ tx[i].s # <<>>) =>
         (i > 1 /\ tx[i - 1] = EditDiff_Truncate(tx[i].y - 1, tx[i].s))
    /\ tx[i].t = "DeleteLine" =>
         (i < Len(tx) /\ tx[i + 1] = EditDiff_Append(tx[i].y - 1, tx[i].s))
    /\ tx[i].t = "Append" =>
         (i > 1 /\ tx[i - 1] = EditDiff_DeleteLine(tx[i].y + 1, tx[i].s))

\* tx holds splits, line breaks and joins only.
Structural(tx) ==
  /\ tx # <<>>
  /\ \A i \in 1..Len(tx) : tx[i].t \in {"Truncate", "InsertLine", "DeleteLine", "Append"}

\* C28: the two ops of a split are in one transaction, and so are the two ops of a
\* join; a split, a join, and the undo or redo of a transaction made of them leave
\* the concatenation of the lines as it was.
C28_SplitAndJoinWhole ==
  [][/\ Paired(history'.ongoing)
     /\ \A k \in 1..Len(history'.entries) : Paired(history'.entries[k])
     /\ (last' \in EditCalls /\ Structural(Recorded)) => Flatten(row') = Flatten(row)
     /\ (last' = "undo" /\ ret'.ok /\ Structural(Undone)) => Flatten(row') = Flatten(row)
     /\ (last' = "redo" /\ ret'.ok /\ Structural(Redone)) => Flatten(row') = Flatten(row)]_vars

C28_Witness ==
  /\ last = "redo"
  /\ ret.ok
  /\ track.phase = "redone"
  /\ history.index >= 1
  /\ Len(history.entries[history.index]) = 2
  /\ history.entries[history.index][1].t = "Truncate"
  /\ history.entries[history.index][1].s # <<>>
  /\ Len(row) = Len(track.pre.row) + 1
  /\ Flatten(row) = Flatten(track.pre.row)
  /\ row[2] # Row_empty

\* The index preconditions of one application of d to rows.
Meets(d, rows, which) ==
  CASE d.t = "InsertChar" ->
         /\ d.y < Len(rows)
         /\ IF which = "Redo" THEN d.x <= Len(rows[d.y + 1]) ELSE d.x < Len(rows[d.y + 1])
    [] d.t = "DeleteChar" ->
         /\ d.y < Len(rows)
         /\ d.x >= 1
         /\ IF which = "Redo" THEN d.x <= Len(rows[d.y + 1]) ELSE d.x - 1 <= Len(rows[d.y + 1])
    [] d.t = "Append" ->
         /\ d.y < Len(rows)
         /\ which = "Undo" => EndsWith(rows[d.y + 1], d.s)
    [] d.t = "Truncate" ->
         /\ d.y < Len(rows)
         /\ which = "Redo" => EndsWith(rows[d.y + 1], d.s)
    [] d.t = "Newline" -> which = "Undo" => Len(rows) >= 1
    [] d.t = "InsertLine" ->
         /\ d.y >= 1
         /\ IF which = "Redo" THEN d.y <= Len(rows) ELSE d.y < Len(rows)
    [] d.t = "DeleteLine" ->
         /\ d.y >= 1
         /\ IF which = "Redo" THEN d.y < Len(rows) ELSE d.y <= Len(rows)

\* Every diff of diffs meets them when they are applied to rows one after the other.
RECURSIVE AllMeet(_, _, _)
AllMeet(diffs, which, rows) ==
  \/ diffs = <<>>
  \/ /\ Meets(Head(diffs), rows, which)
     /\ AllMeet(Tail(diffs), which, Apply(Head(diffs), rows, which).rows)

\* C29: every application of a diff, forward when it is recorded or redone and
\* backward when it is undone, meets its index preconditions, and none panics.
C29_ApplicationsInRange ==
  [][/\ ~crashed'
     /\ last' \in EditCalls => AllMeet(Recorded, "Redo", row)
     /\ (last' = "undo" /\ ret'.ok) => AllMeet(Reverse(Undone), "Undo", row)
     /\ (last' = "redo" /\ ret'.ok) => AllMeet(Redone, "Redo", row)]_vars

C29_Witness ==
  /\ last = "redo"
  /\ ret.ok
  /\ ~crashed
  /\ track.phase = "redone"
  /\ track.was = "undone"
  /\ history.index >= 1
  /\ Len(history.entries[history.index]) = 2
  /\ history.entries[history.index][1].t = "DeleteLine"
  /\ history.entries[history.index][1].s # <<>>
  /\ Len(row) = 1

\* Every Newline of diffs, applied backward to rows one after the other, finds the
\* last line empty.
RECURSIVE NewlinePopsEmpty(_, _)
NewlinePopsEmpty(diffs, rows) ==
  \/ diffs = <<>>
  \/ /\ Head(diffs).t = "Newline" => (Len(rows) >= 1 /\ rows[Len(rows)] = Row_empty)
     /\ NewlinePopsEmpty(Tail(diffs), Apply(Head(diffs), rows, "Undo").rows)

\* C30: when undo() applies a Newline backward, the line it pops, the last one, is
\* empty.
C30_NewlineUndoPopsEmptyLine ==
  [][(last' = "undo" /\ ret'.ok) => NewlinePopsEmpty(Reverse(Undone), row)]_vars

C30_Witness ==
  /\ last = "undo"
  /\ ret.ok
  /\ track.phase = "undone"
  /\ history.index + 1 <= Len(history.entries)
  /\ Len(history.entries[history.index + 1]) = 3
  /\ history.entries[history.index + 1][1].t = "Newline"
  /\ history.entries[history.index + 1][2].t = "InsertChar"
  /\ history.entries[history.index + 1][3].t = "InsertChar"
  /\ Len(row) = 1
  /\ Len(track.pre.row) = 2

\* undo() called again and again on b, at most fuel + 1 times: stopped when a call
\* returned false, with b the document it left and calls the calls made.
RECURSIVE undo_repeatedly(_, _, _)
undo_again(u, fuel, calls) ==
  IF ~u.ret THEN [b |-> u.b, stopped |-> TRUE, calls |-> calls]
  ELSE IF fuel = 0 THEN [b |-> u.b, stopped |-> FALSE, calls |-> calls]
  ELSE undo_repeatedly(u.b, fuel - 1, calls)

undo_repeatedly(b, fuel, calls) == undo_again(undo(b), fuel, calls + 1)

\* The calls of undo() that find a transaction: the sealed ones on the undo side and
\* the active one.
Undoable == history.index + (IF history.ongoing # <<>> THEN 1 ELSE 0)

UndoneToOrigin(r) ==
  /\ r.stopped
  /\ r.calls = Undoable + 1
  /\ r.b.row = Kept
  /\ ~r.b.crashed

\* C31: from every state, undo() called repeatedly returns false after finitely many
\* calls (one more than the transactions it can revert), and the lines are then
\* those the document had when it was created or opened.
C31_UndoDrainsToOrigin == UndoneToOrigin(undo_repeatedly(Buf, Undoable + 1, 0))

\* The last of three undo() calls returned false on the lines of the new document,
\* two undone transactions behind it.
C31_Witness ==
  /\ last = "undo"
  /\ ~ret.ok
  /\ track.was = "undone"
  /\ track.okB
  /\ history.index = 0
  /\ Len(history.entries) = 2
  /\ file = None
  /\ row = Kept

\* The keys whose method closes the active transaction before it records.
ClosingCalls == {"insert_line", "delete_char", "delete_right_char"}

\* insert_undo_point() on buffer b left p: no transaction more, the counter as it was.
ClosedNothing(b, p) ==
  /\ ~History_finish_ongoing_edit(b.history).sealed
  /\ p.history = b.history
  /\ p.undo_count = b.undo_count

\* C32: no sealed transaction of the history is empty; closing the active transaction
\* when it holds no op reports no seal, adds no transaction and leaves the counter,
\* both for insert_undo_point() itself and for the keys that call it.
C32_NoEmptyTransaction ==
  [][/\ \A i \in 1..Len(history'.entries) : history'.entries[i] # <<>>
     /\ (history.ongoing = <<>> /\ ~inserted_undo)
          => ClosedNothing(Buf, insert_undo_point(Buf))
     /\ (history.ongoing = <<>> /\ last' \in ClosingCalls)
          => /\ history'.index = history.index
             /\ undo_count' = undo_count]_vars

\* A line break typed right after an undo(): its insert_undo_point() found nothing
\* to close, and the new line is the only transaction, still active.
C32_Witness ==
  /\ last = "insert_line"
  /\ track.was = "undone"
  /\ track.okB
  /\ history.index = 0
  /\ history.entries = <<>>
  /\ Len(history.ongoing) = 1
  /\ history.ongoing[1].t = "InsertLine"
  /\ undo_count = 0

\* undo() called j times on b, as long as it returns true.
RECURSIVE undo_times(_, _)
undo_next(u, j) == IF u.ret THEN undo_times(u.b, j - 1) ELSE [b |-> u.b, ret |-> FALSE]

undo_times(b, j) == IF j = 0 THEN [b |-> b, ret |-> TRUE] ELSE undo_next(undo(b), j)

\* j calls of undo() all found a transaction and left the lines rows.
UndoGives(j, rows) == undo_times(Buf, j).ret /\ undo_times(Buf, j).b.row = rows

\* C33: a backspace that removes a character seals the active transaction before it
\* records its DeleteChar, which is then the only op of the active transaction; after
\* k >= 2 consecutive such backspaces the j-th undo() gives the lines as the j-th
\* last backspace found them: the first restores the character deleted last only,
\* and the lines are those from before the run at the k-th undo() and not before.
C33_BackspacesUndoneOneByOne ==
  /\ (probe.stage = "erase" /\ last = "delete_char")
       => /\ Len(history.ongoing) = 1
          /\ history.ongoing[1].t = "DeleteChar"
  /\ (probe.stage = "erase" /\ Len(probe.orig) >= 2)
       => \A j \in 1..Len(probe.orig) :
            /\ UndoGives(j, probe.orig[j])
            /\ j < Len(probe.orig) => probe.orig[j] # probe.orig[Len(probe.orig)]

\* Three backspaces in a row have emptied the line "aba".
C33_Witness ==
  /\ probe.stage = "erase"
  /\ Len(probe.orig) = 3
  /\ probe.orig[3] = <<InitLine(3)>>
  /\ row = <<Row_empty>>
  /\ last = "delete_char"
  /\ history.index = 2

\* The Row r holds the characters cs: len() counts them, the byte offsets rise from
\* 0 to the byte length, char_at gives each, and the cache is empty exactly when
\* every character is one byte.
RowHolds(r, cs) ==
  /\ r.ok
  /\ Str_chars(r.buf) = cs
  /\ RowBuf_len(r) = Len(cs)
  /\ RowBuf_byte_idx_of(r, 0) = 0
  /\ \A i \in 0..(Len(cs) - 1) : RowBuf_byte_idx_of(r, i) < RowBuf_byte_idx_of(r, i + 1)
  /\ RowBuf_byte_idx_of(r, Len(cs)) = Len(r.buf)
  /\ \A i \in 0..(Len(cs) - 1) : RowBuf_char_at_checked(r, i) = Some(cs[i + 1])
  /\ (r.indices = <<>>) <=> (\A i \in 1..Len(cs) : Len(cs[i]) = 1)

\* C34: a line built by insert_char, remove_char, append, truncate and remove over
\* characters of 1 to 4 bytes has len() equal to its number of characters, byte
\* offsets strictly increasing up to the byte length at index len(), char_at(i) its
\* i-th character, and an empty offset cache exactly when every character is one
\* byte; no call panics.
C34_RowCountsCharacters == probe.stage = "row" => (~crashed /\ RowHolds(probe.orig, row[1]))

\* A line of a 4-byte and a 3-byte character after a remove_char.
C34_Witness ==
  /\ probe.stage = "row"
  /\ last = "remove_char"
  /\ row[1] = << <<240, 159, 152, 128>>, <<227, 129, 130>> >>
  /\ probe.orig.indices = <<0, 4>>
  /\ Len(probe.orig.buf) = 7

\* C35: delete_right_char() leaves the cursor where it was, whether it returns early,
\* deletes the character under the cursor or joins the next line onto the current
\* one.
C35_DeleteRightKeepsCursor ==
  [][last' = "delete_right_char" => (cx' = cx /\ cy' = cy)]_vars

\* A join by delete_right_char at the end of a non-empty first line: the line below
\* is gone, its text is on the first line behind the cursor, which did not move.
C35_Witness ==
  /\ last = "delete_right_char"
  /\ track.phase = "edit"
  /\ track.kind = "join_right"
  /\ Cursor = track.pre.cur
  /\ cx >= 1
  /\ Len(track.pre.row) = 2
  /\ Len(row) = 1
  /\ Row_len(row[1]) > cx

\* C36: delete_char() with the cursor on the sentinel (cy = number of lines) changes
\* nothing: the cursor stays, no line changes, the active transaction is not sealed
\* and the counter, the flags and the dirty floor are as they were.
C36_BackspaceOnSentinel ==
  [][(last' = "delete_char" /\ cy = Len(row))
       => UNCHANGED <<cx, cy, row, history, undo_count, modified, inserted_undo,
                      dirty_start>>]_vars

\* Backspace pressed on the sentinel under a typed line, the typing still active.
C36_Witness ==
  /\ last = "delete_char"
  /\ probe.way = "Backspace"
  /\ probe.orig = <<0, 1>>
  /\ Cursor = <<0, 1>>
  /\ Len(row) = 1
  /\ row[1] # Row_empty
  /\ history.ongoing # <<>>
  /\ history.index = 0

\* The step is a ^Q keypress; the step is another identified keypress.
CtrlQStep == probe'.way = "^Q" /\ probe' # probe

OtherKeyStep == last \in {"new", "finish_edit"} /\ last' \notin {"new", "finish_edit"}

\* C37: while the buffer reports modified(), a ^Q quits exactly when the identified
\* key pressed just before was ^Q too, and otherwise arms the confirmation and leaves
\* the buffer alone; any other identified key disarms it; when the buffer does not
\* report modified(), one ^Q quits.
C37_QuitNeedsSecondCtrlQ ==
  [][/\ (CtrlQStep /\ TextBuffer_modified(Buf))
          => /\ Quit' <=> probe.orig = <<"^Q">>
             /\ ~Quit' => quitting'
     /\ (CtrlQStep /\ ~TextBuffer_modified(Buf)) => Quit'
     /\ CtrlQStep => UNCHANGED <<cx, cy, row, history, undo_count, modified, disk>>
     /\ OtherKeyStep => ~quitting'
     /\ (quitting /\ ~Quit) => probe.orig = <<"^Q">>]_vars

\* The editor has quit on the second of two ^Q, with lines that are not those of the
\* file.
C37_Witness ==
  /\ Quit
  /\ quitting
  /\ TextBuffer_modified(Buf)
  /\ probe.orig = <<"^Q">>
  /\ file # None
  /\ row # Kept
  /\ history.index >= 1

\* C38: under every sequence of set_info_message, set_error_message, unset_message
\* and render, DrawMessage::fold is never called with (Open, Open), (Close, Close),
\* (Close, Update) or (Update, Open): a pending Open or Update goes with a message
\* held, a pending Close with none.
C38_FoldNeverUnreachable ==
  /\ ~crashed
  /\ ~ScreenNow.panicked
  /\ FoldArgs \notin DrawMessage_unreachable
  /\ ScreenNow.draw_message \in DrawMessage
  /\ ScreenNow.draw_message \in {"Open", "Update"} => ScreenNow.message # None
  /\ ScreenNow.draw_message = "Close" => ScreenNow.message = None

\* An error message set while the closing of the last one was still pending: fold
\* was called with (Close, Open) and an Update is pending.
C38_Witness ==
  /\ probe.stage = "screen"
  /\ last = "set_error_message"
  /\ probe.d = <<"Close", "Open">>
  /\ probe.orig.draw_message = "Update"
  /\ probe.orig.message = Some(StatusMessage_new(1, "Error"))

====
